---- MODULE Spec2Model ----
(***************************************************************************)
(* Command-buffer subsystem of the Unified Runtime adapters.               *)
(*                                                                         *)
(*  - HIP adapter   (source/adapters/hip/command_buffer.cpp): recording of *)
(*    commands as nodes of a native graph, the sync-point registry,        *)
(*    finalize and enqueue.                                                *)
(*  - OpenCL adapter (source/adapters/opencl/command_buffer.cpp): the dual *)
(*    (external / internal) reference counting of command buffers and      *)
(*    command handles.                                                     *)
(*  - Retain and release of one command buffer by several threads, step by *)
(*    step, on either adapter.                                             *)
(*  - Command buffers whose commands wait on and signal external events    *)
(*    (test/conformance/exp_command_buffer/event_sync.cpp), run by a       *)
(*    device that follows the documented ordering rules.                   *)
(*  - HIP contexts (source/adapters/hip/context.hpp): the ScopedContext    *)
(*    guard of a thread's active native context, and the mutex-guarded     *)
(*    list of extended deleters of a context.                              *)
(***************************************************************************)
EXTENDS Integers, Sequences, FiniteSets, TLC

VARIABLES
    hip,        \* HIP: the ur_exp_command_buffer_handle_t_ object
    hipLast,    \* HIP: the last API call: arguments, result, outputs
    cl,         \* OpenCL: the ur_exp_command_buffer_handle_t_ object
    clCmd,      \* OpenCL: command handle id -> ur_exp_command_buffer_command_handle_t_
    clHeld,     \* OpenCL: references the caller holds (buffer, and per command handle)
    clLast,     \* OpenCL: the last API call: arguments, result, trace of releases
    thr,        \* threads retaining and releasing one command buffer
    ev,         \* a host program with external events, and the device running it
    ctx         \* HIP: a thread's active native context; a context's extended deleters

vars == <<hip, hipLast, cl, clCmd, clHeld, clLast, thr, ev, ctx>>
hipVars == <<hip, hipLast>>
clVars == <<cl, clCmd, clHeld, clLast>>
auxVars == <<thr, ev, ctx>>

(***************************************************************************)
(* Bounds of the model.                                                    *)
(***************************************************************************)
MaxNodes == 2       \* native graph nodes in the HIP command buffer that any append is made to
MaxHandles == 2     \* command handles created in the OpenCL command buffer
MaxRetain == 1      \* retains the caller issues per object
MaxUpdates == 1     \* updated OpenCL commands, and configurations applied to each
NumThreads == 3     \* threads that retain and release one command buffer
MaxShared == 2      \* references to that buffer taken by retain

\* Sync-point values a caller can pass: the values of the first MaxNodes
\* sync points, and one more, which no append waits on after it is minted.
SyncPointValues == 0 .. MaxNodes

\* The wait lists a caller passes: up to two distinct sync points; a pair
\* holds two of the former values, or the first of them and the latter value
\* in either order.
WaitLists ==
    {<<>>} \cup {<<s>> : s \in SyncPointValues}
           \cup {<<p[1], p[2]>> : p \in {q \in SyncPointValues \X SyncPointValues :
                                                q[1] < q[2] /\ q[2] < MaxNodes}}
           \cup {<<0, MaxNodes>>, <<MaxNodes, 0>>}

\* Calls with invalid arguments, and calls during which a native call fails,
\* are made with one of these wait lists: the empty one and one that names a
\* sync point the buffer has not minted.
ProbeWaitLists == {<<>>, <<MaxNodes>>}

NoSyncPoint == -1   \* the caller's sync-point output slot was not written
NullExec == -1      \* HIPGraphExec == nullptr

(***************************************************************************)
(* Result codes that native-API failures are reported with                 *)
(* (UR_CHECK_ERROR throws the mapped ur_result_t).                         *)
(***************************************************************************)
NativeFaults == {"OUT_OF_RESOURCES"}
NativeResults == {"SUCCESS"} \cup NativeFaults

(***************************************************************************)
(* HIP adapter: data                                                       *)
(***************************************************************************)

\* A node of the native graph. deps is the dependency array handed to
\* hipGraphAdd*Node (indices into HIPGraph); the memset parameters are those
\* of hipMemsetParams and are 0 for the other kinds of node.
GraphNode(kind, deps) ==
    [kind |-> kind, deps |-> deps,
     elementSize |-> 0, dstOffset |-> 0, pitch |-> 0, height |-> 0]

\* A memset node that writes at the start of the destination whatever the
\* offset asked for.
MemsetNode_AtBase(deps, elementSize, dstOffset, pitch, height) ==
    [kind |-> "memset", deps |-> deps,
     elementSize |-> elementSize, dstOffset |-> 0,
     pitch |-> pitch, height |-> height]

\* A memset node that is given no dependency.
MemsetNode_NoDeps(deps, elementSize, dstOffset, pitch, height) ==
    [kind |-> "memset", deps |-> <<>>,
     elementSize |-> elementSize, dstOffset |-> dstOffset,
     pitch |-> pitch, height |-> height]

\* A memset node: hipGraphAddMemsetNode with hipMemsetParams.
MemsetNode(deps, elementSize, dstOffset, pitch, height) ==
    [kind |-> "memset", deps |-> deps,
     elementSize |-> elementSize, dstOffset |-> dstOffset,
     pitch |-> pitch, height |-> height]

\* ur_exp_command_buffer_handle_t_(hContext, hDevice). phase tells whether
\* the object exists and whether its native graph does: "none" before
\* construction, "constructed" after it, "ready" once hipGraphCreate succeeded.
HipNewCommandBuffer ==
    [HIPGraph |-> <<>>, HIPGraphExec |-> NullExec,
     SyncPoints |-> <<>>, NextSyncPoint |-> 0, RefCount |-> 1,
     phase |-> "constructed"]

\* No command buffer has been created.
HipNoCommandBuffer ==
    [HipNewCommandBuffer EXCEPT !.RefCount = 0, !.phase = "none"]

\* hipGraphAdd*Node: the node is appended to the graph; its handle is its index.
hipGraphAddNode(CommandBuffer, node) ==
    [CommandBuffer EXCEPT !.HIPGraph = Append(@, node)]

\* AddSyncPoint: mint NextSyncPoint, bind it to the node, advance the counter.
\* SyncPoints is kept as the sequence of the nodes of sync points
\* 0 .. NextSyncPoint-1 (sync point s is entry s+1).
AddSyncPoint(CommandBuffer, HIPNode) ==
    [CommandBuffer EXCEPT !.SyncPoints = Append(@, HIPNode),
                          !.NextSyncPoint = @ + 1]

\* SyncPoints.find(s) != SyncPoints.end()
SyncPointKnown(CommandBuffer, s) == s + 1 \in DOMAIN CommandBuffer.SyncPoints
SyncPointNode(CommandBuffer, s) == CommandBuffer.SyncPoints[s + 1]

RECURSIVE getNodesFrom(_, _, _, _)
getNodesFrom(CommandBuffer, SyncPointWaitList, i, HIPNodesList) ==
    IF i > Len(SyncPointWaitList)
    THEN [Result |-> "SUCCESS", HIPNodesList |-> HIPNodesList]
    ELSE IF SyncPointKnown(CommandBuffer, SyncPointWaitList[i])
         THEN getNodesFrom(CommandBuffer, SyncPointWaitList, i + 1,
                  Append(HIPNodesList, SyncPointNode(CommandBuffer, SyncPointWaitList[i])))
         ELSE [Result |-> "INVALID_VALUE", HIPNodesList |-> HIPNodesList]

\* A resolution that skips the sync points it does not find.
getNodesFromSyncPoints_SkipUnknown(CommandBuffer, SyncPointWaitList) ==
    [Result |-> "SUCCESS",
     HIPNodesList |->
         LET known == SelectSeq(SyncPointWaitList,
                                LAMBDA s : SyncPointKnown(CommandBuffer, s))
         IN  [i \in 1 .. Len(known) |-> SyncPointNode(CommandBuffer, known[i])]]

\* A resolution that hands out the node after the one a sync point is bound to.
getNodesFromSyncPoints_NextNode(CommandBuffer, SyncPointWaitList) ==
    LET R == getNodesFrom(CommandBuffer, SyncPointWaitList, 1, <<>>)
    IN  [R EXCEPT !.HIPNodesList = [i \in DOMAIN @ |-> @[i] + 1]]

\* A resolution that stops after the first entry of the wait list.
getNodesFromSyncPoints_FirstOnly(CommandBuffer, SyncPointWaitList) ==
    getNodesFrom(CommandBuffer,
                 IF Len(SyncPointWaitList) > 1
                 THEN <<SyncPointWaitList[1]>> ELSE SyncPointWaitList,
                 1, <<>>)

\* Nodes pushed before the first unknown sync point stay in the list.
getNodesFromSyncPoints(CommandBuffer, SyncPointWaitList) ==
    getNodesFrom(CommandBuffer, SyncPointWaitList, 1, <<>>)

(***************************************************************************)
(* HIP adapter: the append operations as functions of the command buffer.  *)
(* Each returns the result code, the value written to the caller's         *)
(* sync-point slot (NoSyncPoint when it is not written) and the command    *)
(* buffer after the call.                                                  *)
(***************************************************************************)
Outcome(Result, SyncPoint, CommandBuffer) ==
    [Result |-> Result, SyncPoint |-> SyncPoint, CommandBuffer |-> CommandBuffer]

\* The tail shared by the single-node appends: add the node with DepsList as
\* its dependencies (the native call may fail, UR_CHECK_ERROR then throws and
\* the catch block returns the error), register a sync point for it.
AddNodeAndSyncPoint(CommandBuffer, kind, DepsList, native, okResult) ==
    IF native # "SUCCESS"
    THEN Outcome(native, NoSyncPoint, CommandBuffer)
    ELSE LET G == hipGraphAddNode(CommandBuffer, GraphNode(kind, DepsList))
         IN  Outcome(okResult, CommandBuffer.NextSyncPoint,
                     AddSyncPoint(G, Len(G.HIPGraph)))

\* The shape shared by the appends without argument checks: resolve the wait
\* list, return its error if any, else add one node.
AppendOneNode(CommandBuffer, kind, wl, native, okResult) ==
    LET R == getNodesFromSyncPoints(CommandBuffer, wl)
    IN  IF R.Result # "SUCCESS"
        THEN Outcome(R.Result, NoSyncPoint, CommandBuffer)
        ELSE AddNodeAndSyncPoint(CommandBuffer, kind, R.HIPNodesList, native, okResult)

\* urCommandBufferAppendKernelLaunchExp. ctxOk: the kernel's context is the
\* command buffer's; globalZero: *pGlobalWorkSize == 0; params: the result of
\* setKernelParams.
HipAppendKernelLaunch_NoUpperBound(CommandBuffer, ctxOk, workDim, globalZero, params, wl, native) ==
    IF ~ctxOk THEN Outcome("INVALID_KERNEL", NoSyncPoint, CommandBuffer)
    ELSE IF ~(workDim > 0) THEN Outcome("INVALID_WORK_DIMENSION", NoSyncPoint, CommandBuffer)
    ELSE AppendOneNode(CommandBuffer, "kernel", wl, native, "SUCCESS")

HipAppendKernelLaunch(CommandBuffer, ctxOk, workDim, globalZero, params, wl, native) ==
    IF ~ctxOk THEN Outcome("INVALID_KERNEL", NoSyncPoint, CommandBuffer)
    ELSE IF ~(workDim > 0) THEN Outcome("INVALID_WORK_DIMENSION", NoSyncPoint, CommandBuffer)
    ELSE IF ~(workDim < 4) THEN Outcome("INVALID_WORK_DIMENSION", NoSyncPoint, CommandBuffer)
    ELSE LET R == getNodesFromSyncPoints(CommandBuffer, wl)
         IN  IF R.Result # "SUCCESS"
             THEN Outcome(R.Result, NoSyncPoint, CommandBuffer)
             ELSE IF globalZero
                  THEN AddNodeAndSyncPoint(CommandBuffer, "empty", R.HIPNodesList,
                                           native, "SUCCESS")
                  ELSE IF params # "SUCCESS"
                       THEN Outcome(params, NoSyncPoint, CommandBuffer)
                       ELSE AddNodeAndSyncPoint(CommandBuffer, "kernel", R.HIPNodesList,
                                                native, "SUCCESS")

\* size_t arithmetic wraps at the word size.
WordMod == 16
SizeT(x) == x % WordMod

\* The size of the allocation behind every ur_mem_handle_t of the model.
MemSize == 8

\* urCommandBufferAppendMemBufferCopyExp
HipAppendMemBufferCopy(CommandBuffer, srcOffset, dstOffset, size, wl, native) ==
    IF ~(SizeT(size + dstOffset) <= MemSize)
    THEN Outcome("INVALID_SIZE", NoSyncPoint, CommandBuffer)
    ELSE IF ~(SizeT(size + srcOffset) <= MemSize)
    THEN Outcome("INVALID_SIZE", NoSyncPoint, CommandBuffer)
    ELSE AppendOneNode(CommandBuffer, "memcpy1D", wl, native, "SUCCESS")

\* urCommandBufferAppendUSMMemcpyExp, ...MemBufferWriteExp, ...MemBufferReadExp
HipAppendMemcpy1D(CommandBuffer, wl, native) ==
    AppendOneNode(CommandBuffer, "memcpy1D", wl, native, "SUCCESS")

\* urCommandBufferAppendMemBufferCopyRectExp, ...WriteRectExp, ...ReadRectExp
HipAppendMemcpy3D(CommandBuffer, wl, native) ==
    AppendOneNode(CommandBuffer, "memcpy3D", wl, native, "SUCCESS")

\* urCommandBufferAppendUSMPrefetchExp, urCommandBufferAppendUSMAdviseExp:
\* an empty node, reported with the adapter-specific warning.
HipAppendHint_Success(CommandBuffer, wl, native) ==
    AppendOneNode(CommandBuffer, "empty", wl, native, "SUCCESS")

HipAppendHint(CommandBuffer, wl, native) ==
    AppendOneNode(CommandBuffer, "empty", wl, native, "ADAPTER_SPECIFIC")

(***************************************************************************)
(* HIP adapter: fills                                                      *)
(***************************************************************************)
RECURSIVE BitAnd(_, _)
BitAnd(a, b) ==
    IF a = 0 \/ b = 0 THEN 0
    ELSE (a % 2) * (b % 2) + 2 * BitAnd(a \div 2, b \div 2)

\* ((patternSize & (patternSize - 1)) == 0) && (patternSize > 0)
PatternSizeIsValid(patternSize) ==
    BitAnd(patternSize, SizeT(patternSize - 1)) = 0 /\ patternSize > 0

\* A loop that emits no node for the pattern bytes after the fourth.
FillByteSteps_None(O, Step, NumberOfSteps, HIPNodesList, dstOffset, Size, failAt, fault) == O

\* The loop `for (auto Step = 4u; Step < NumberOfSteps; ++Step)` of the fill
\* helper. O is the outcome so far, HIPNodesList the dependency list of the
\* next node. The native call of step Step is call number Step - 2 of the
\* helper; call number failAt fails with fault.
RECURSIVE FillByteSteps(_, _, _, _, _, _, _, _)
FillByteSteps(O, Step, NumberOfSteps, HIPNodesList, dstOffset, Size, failAt, fault) ==
    IF ~(Step < NumberOfSteps) THEN O
    ELSE IF failAt = Step - 2
    THEN Outcome(fault, O.SyncPoint, O.CommandBuffer)
    ELSE LET G == hipGraphAddNode(O.CommandBuffer,
                      MemsetNode(HIPNodesList, 1, dstOffset + Step, NumberOfSteps,
                                 Size \div NumberOfSteps))
             n == Len(G.HIPGraph)
         IN  FillByteSteps(Outcome(O.Result, G.NextSyncPoint, AddSyncPoint(G, n)),
                           Step + 1, NumberOfSteps, <<n>>, dstOffset, Size, failAt, fault)

\* enqueueCommandBufferFillHelper. The result of getNodesFromSyncPoints is
\* stored in Result and the helper goes on with the nodes resolved so far.
enqueueCommandBufferFillHelper(CommandBuffer, dstOffset, PatternSize, Size, wl, failAt, fault) ==
    LET R == getNodesFromSyncPoints(CommandBuffer, wl)
        DepsList == R.HIPNodesList
    IN  IF failAt = 1
        THEN Outcome(fault, NoSyncPoint, CommandBuffer)
        ELSE IF PatternSize = 1 \/ PatternSize = 2 \/ PatternSize = 4
        THEN LET G == hipGraphAddNode(CommandBuffer,
                          MemsetNode(DepsList, PatternSize, dstOffset, PatternSize,
                                     Size \div PatternSize))
             IN  Outcome(R.Result, CommandBuffer.NextSyncPoint,
                         AddSyncPoint(G, Len(G.HIPGraph)))
        ELSE LET NumberOfSteps == PatternSize
                 G == hipGraphAddNode(CommandBuffer,
                          MemsetNode(DepsList, 4, dstOffset, NumberOfSteps,
                                     Size \div NumberOfSteps))
                 n == Len(G.HIPGraph)
             IN  FillByteSteps(Outcome(R.Result, CommandBuffer.NextSyncPoint,
                                       AddSyncPoint(G, n)),
                               4, NumberOfSteps, <<n>>, dstOffset, Size, failAt, fault)

\* urCommandBufferAppendMemBufferFillExp. With patternSize == 0 the first
\* statement computes offset % 0: the process traps (divZero = "trap") or the
\* remainder is some value, and the pattern-size check then fails.
HipAppendMemBufferFill(CommandBuffer, patternNull, patternSize, offset, size, wl, failAt, fault, divZero) ==
    IF patternSize = 0
    THEN IF divZero = "trap"
         THEN Outcome("SIGFPE", NoSyncPoint, CommandBuffer)
         ELSE Outcome("INVALID_SIZE", NoSyncPoint, CommandBuffer)
    ELSE LET ArgsAreMultiplesOfPatternSize ==
                 (offset % patternSize = 0) \/ (size % patternSize = 0)
             PatternIsValid == ~patternNull
         IN  IF ~(ArgsAreMultiplesOfPatternSize /\ PatternIsValid
                  /\ PatternSizeIsValid(patternSize))
             THEN Outcome("INVALID_SIZE", NoSyncPoint, CommandBuffer)
             ELSE enqueueCommandBufferFillHelper(CommandBuffer, offset, patternSize,
                                                 size, wl, failAt, fault)

\* urCommandBufferAppendUSMFillExp
HipAppendUSMFill(CommandBuffer, patternNull, patternSize, size, wl, failAt, fault) ==
    LET PatternIsValid == ~patternNull
    IN  IF ~(PatternIsValid /\ PatternSizeIsValid(patternSize))
        THEN Outcome("INVALID_SIZE", NoSyncPoint, CommandBuffer)
        ELSE enqueueCommandBufferFillHelper(CommandBuffer, 0, patternSize, size,
                                            wl, failAt, fault)

(***************************************************************************)
(* HIP adapter: actions                                                    *)
(***************************************************************************)
HipAppendOps ==
    {"AppendKernelLaunch", "AppendUSMMemcpy", "AppendMemBufferCopy",
     "AppendMemBufferCopyRect", "AppendMemBufferWrite", "AppendMemBufferRead",
     "AppendMemBufferWriteRect", "AppendMemBufferReadRect", "AppendUSMPrefetch",
     "AppendUSMAdvise", "AppendMemBufferFill", "AppendUSMFill"}

\* The record of a call: what was passed (args: the arguments beside the wait
\* list, for the calls that check them), what came back, and the buffer's
\* node count, sync-point counter and executable graph when it was made.
HipCall(op, wl, result, syncPoint, steps, eventOut, launched) ==
    [op |-> op, wl |-> wl, result |-> result,
     syncPoint |-> syncPoint, steps |-> steps, eventOut |-> eventOut,
     launched |-> launched, isUpdatable |-> FALSE,
     DeviceSupportsUpdate |-> FALSE, handleOut |-> FALSE, args |-> <<>>,
     nodesBefore |-> Len(hip.HIPGraph),
     nextBefore |-> hip.NextSyncPoint,
     execBefore |-> hip.HIPGraphExec,
     refBefore |-> hip.RefCount, prevOp |-> "none",
     graphDestroys |-> 0, execDestroys |-> 0, driverFault |-> FALSE]

\* The last call left the buffer as it found it.
HipLastNoEffect ==
    /\ Len(hip.HIPGraph) = hipLast.nodesBefore
    /\ hip.NextSyncPoint = hipLast.nextBefore
    /\ hip.HIPGraphExec = hipLast.execBefore

\* A process that trapped runs no further call. A call that left the buffer
\* as it found it (a failed call without effect, an enqueue, a finalize that
\* rebuilt the same executable graph) returned the program to the state it
\* was called in: the calls that can follow it are the calls that can follow
\* from that state, and are explored from there.
\* A fill with a 1- or 2-byte pattern, or with an offset or a size
\* other than those of the whole allocation, is explored as the last call
\* of a run.
HipRunning ==
    /\ clLast.op = "none"
    /\ hip.phase = "ready"
    /\ hipLast.result # "SIGFPE"
    /\ hipLast.op \in {"none", "Create"} \/ ~HipLastNoEffect
    /\ hipLast.op \in {"AppendMemBufferFill", "AppendUSMFill"} =>
           /\ hipLast.args.patternSize \notin {1, 2}
           /\ hipLast.args.offset = 0
           /\ hipLast.args.size = MemSize

\* The native results explored with wait list wl.
NativeFor(wl) == IF wl \in ProbeWaitLists THEN NativeResults ELSE {"SUCCESS"}
\* The argument cases explored with wait list wl: all of them, or the valid one.
ArgsFor(wl, cases, valid) == IF wl \in ProbeWaitLists THEN cases ELSE {valid}

\* An append call with outcome O. A buffer that holds MaxNodes nodes is
\* appended to with wait lists of two sync points, a larger one only by calls
\* that leave it unchanged.
HipAppendWith(op, wl, args, O) ==
    /\ HipRunning
    /\ \/ Len(hip.HIPGraph) < MaxNodes
       \/ Len(hip.HIPGraph) = MaxNodes /\ Len(wl) = 2
       \/ O.CommandBuffer = hip
    /\ hip' = O.CommandBuffer
    /\ hipLast' = [HipCall(op, wl, O.Result, O.SyncPoint, <<>>, FALSE, FALSE)
                       EXCEPT !.args = args]
    /\ UNCHANGED <<clVars, auxVars>>

\* An append call whose arguments, the wait list apart, decide nothing.
HipAppend(op, wl, O) == HipAppendWith(op, wl, <<>>, O)

\* Arguments of a kernel launch: valid ones, and ones with the faults the
\* operation checks for (two at once to show which check comes first).
KernelArgsValid ==
    [ctxOk |-> TRUE, workDim |-> 3, params |-> "SUCCESS", native |-> "SUCCESS"]
KernelArgsCases ==
    {KernelArgsValid, [KernelArgsValid EXCEPT !.ctxOk = FALSE],
     [KernelArgsValid EXCEPT !.ctxOk = FALSE, !.workDim = 0],
     [KernelArgsValid EXCEPT !.params = "INVALID_WORK_GROUP_SIZE"]}
        \cup {[KernelArgsValid EXCEPT !.workDim = d] : d \in {0, 1, 4}}
        \cup {[KernelArgsValid EXCEPT !.native = f] : f \in NativeFaults}

Hip_urCommandBufferAppendKernelLaunchExp ==
    \E wl \in WaitLists, globalZero \in BOOLEAN :
      \E a \in ArgsFor(wl, KernelArgsCases, KernelArgsValid) :
        HipAppendWith("AppendKernelLaunch", wl, a,
                      HipAppendKernelLaunch(hip, a.ctxOk, a.workDim, globalZero,
                                            a.params, wl, a.native))

Hip_urCommandBufferAppendUSMMemcpyExp ==
    \E wl \in WaitLists : \E native \in NativeFor(wl) :
        HipAppend("AppendUSMMemcpy", wl, HipAppendMemcpy1D(hip, wl, native))

\* Arguments of a buffer copy: in range, out of range at either end, and a
\* size whose sum with the offset wraps.
CopyArgsValid ==
    [srcOffset |-> 0, dstOffset |-> 0, size |-> MemSize \div 2, native |-> "SUCCESS"]
CopyArgsCases ==
    {CopyArgsValid, [CopyArgsValid EXCEPT !.srcOffset = MemSize],
     [CopyArgsValid EXCEPT !.dstOffset = MemSize],
     [CopyArgsValid EXCEPT !.srcOffset = MemSize, !.dstOffset = MemSize,
                           !.size = WordMod - MemSize \div 2]}
        \cup {[CopyArgsValid EXCEPT !.native = f] : f \in NativeFaults}

Hip_urCommandBufferAppendMemBufferCopyExp ==
    \E wl \in WaitLists :
      \E a \in ArgsFor(wl, CopyArgsCases, CopyArgsValid) :
        HipAppendWith("AppendMemBufferCopy", wl, a,
                      HipAppendMemBufferCopy(hip, a.srcOffset, a.dstOffset, a.size,
                                             wl, a.native))

Hip_urCommandBufferAppendMemBufferCopyRectExp ==
    \E wl \in WaitLists : \E native \in NativeFor(wl) :
        HipAppend("AppendMemBufferCopyRect", wl, HipAppendMemcpy3D(hip, wl, native))

Hip_urCommandBufferAppendMemBufferWriteExp ==
    \E wl \in WaitLists : \E native \in NativeFor(wl) :
        HipAppend("AppendMemBufferWrite", wl, HipAppendMemcpy1D(hip, wl, native))

Hip_urCommandBufferAppendMemBufferReadExp ==
    \E wl \in WaitLists : \E native \in NativeFor(wl) :
        HipAppend("AppendMemBufferRead", wl, HipAppendMemcpy1D(hip, wl, native))

Hip_urCommandBufferAppendMemBufferWriteRectExp ==
    \E wl \in WaitLists : \E native \in NativeFor(wl) :
        HipAppend("AppendMemBufferWriteRect", wl, HipAppendMemcpy3D(hip, wl, native))

Hip_urCommandBufferAppendMemBufferReadRectExp ==
    \E wl \in WaitLists : \E native \in NativeFor(wl) :
        HipAppend("AppendMemBufferReadRect", wl, HipAppendMemcpy3D(hip, wl, native))

Hip_urCommandBufferAppendUSMPrefetchExp ==
    \E wl \in WaitLists : \E native \in NativeFor(wl) :
        HipAppend("AppendUSMPrefetch", wl, HipAppendHint(hip, wl, native))

Hip_urCommandBufferAppendUSMAdviseExp ==
    \E wl \in WaitLists : \E native \in NativeFor(wl) :
        HipAppend("AppendUSMAdvise", wl, HipAppendHint(hip, wl, native))

\* Arguments of a fill: valid ones, a null pattern, pattern sizes that are
\* not a positive power of two, a failing native call (failAt = 1), and a
\* pattern as wide as the allocation, whose fill takes several nodes and may
\* fail at the second of them; the narrower pattern sizes; an offset and a
\* size that are not multiples of the pattern size. The wide pattern is also
\* passed with a wait on the first sync point.
FillArgsValid ==
    [patternNull |-> FALSE, patternSize |-> 4, offset |-> 0, size |-> MemSize,
     failAt |-> 0]
FillArgsCases ==
    {FillArgsValid, [FillArgsValid EXCEPT !.patternNull = TRUE],
     [FillArgsValid EXCEPT !.failAt = 1],
     [FillArgsValid EXCEPT !.patternSize = MemSize],
     [FillArgsValid EXCEPT !.patternSize = MemSize, !.failAt = 2],
     [FillArgsValid EXCEPT !.offset = 2],
     [FillArgsValid EXCEPT !.size = 6],
     [FillArgsValid EXCEPT !.offset = 2, !.size = 6]}
        \cup {[FillArgsValid EXCEPT !.patternSize = n] : n \in {0, 1, 2, 3}}

Hip_urCommandBufferAppendMemBufferFillExp ==
    \E wl \in WaitLists, fault \in NativeFaults :
      \E a \in ArgsFor(wl, FillArgsCases, FillArgsValid)
                   \cup {[FillArgsValid EXCEPT !.patternSize = MemSize] : x \in {wl} \cap {<<0>>}},
         divZero \in {"trap", "value"} :
        HipAppendWith("AppendMemBufferFill", wl, a,
                      HipAppendMemBufferFill(hip, a.patternNull, a.patternSize,
                                             a.offset, a.size, wl, a.failAt,
                                             fault, divZero))

Hip_urCommandBufferAppendUSMFillExp ==
    \E wl \in WaitLists, fault \in NativeFaults :
      \E a \in {c \in ArgsFor(wl, FillArgsCases, FillArgsValid) : c.offset = 0}
                   \cup {[FillArgsValid EXCEPT !.patternSize = MemSize] : x \in {wl} \cap {<<0>>}} :
        HipAppendWith("AppendUSMFill", wl, a,
                      HipAppendUSMFill(hip, a.patternNull, a.patternSize, a.size,
                                       wl, a.failAt, fault))

\* urCommandBufferFinalizeExp: hipGraphInstantiateWithFlags builds the
\* executable graph from the nodes recorded so far; any failure is reported as
\* UR_RESULT_ERROR_UNKNOWN. The executable graph is modelled by the number of
\* nodes it was instantiated from.
HipFinalize_InstallsOnFailure(CommandBuffer, native) ==
    Outcome(IF native # "SUCCESS" THEN "UNKNOWN" ELSE "SUCCESS", NoSyncPoint,
            [CommandBuffer EXCEPT !.HIPGraphExec = Len(CommandBuffer.HIPGraph)])

HipFinalize(CommandBuffer, native) ==
    IF native # "SUCCESS"
    THEN Outcome("UNKNOWN", NoSyncPoint, CommandBuffer)
    ELSE Outcome("SUCCESS", NoSyncPoint,
                 [CommandBuffer EXCEPT !.HIPGraphExec = Len(CommandBuffer.HIPGraph)])

Hip_urCommandBufferFinalizeExp ==
    \E native \in NativeResults :
        LET O == HipFinalize(hip, native)
        IN  /\ HipRunning
            /\ hip' = O.CommandBuffer
            /\ hipLast' = HipCall("Finalize", <<>>, O.Result, NoSyncPoint,
                                  <<>>, FALSE, FALSE)
            /\ UNCHANGED <<clVars, auxVars>>

\* An enqueue that runs every step whatever the earlier ones returned.
HipEnqueue_KeepsGoing(CommandBuffer, wantEvent, wait, start, launch, record) ==
    [Result |-> IF wait # "SUCCESS" THEN wait
                ELSE IF wantEvent /\ start # "SUCCESS" THEN start
                ELSE IF launch # "SUCCESS" THEN launch
                ELSE IF wantEvent THEN record ELSE "SUCCESS",
     steps |-> IF wantEvent THEN <<"wait", "start", "launch", "record">>
               ELSE <<"wait", "launch">>,
     eventOut |-> wantEvent, launched |-> launch = "SUCCESS",
     CommandBuffer |-> CommandBuffer]

\* An enqueue that drops the executable graph once it is launched.
HipEnqueue_ConsumesExec(CommandBuffer, wantEvent, wait, start, launch, record) ==
    [Result |-> IF wait # "SUCCESS" THEN wait ELSE launch,
     steps |-> <<"wait", "launch">>, eventOut |-> FALSE,
     launched |-> wait = "SUCCESS" /\ launch = "SUCCESS",
     CommandBuffer |-> IF wait = "SUCCESS" /\ launch = "SUCCESS"
                       THEN [CommandBuffer EXCEPT !.HIPGraphExec = NullExec]
                       ELSE CommandBuffer]

\* urCommandBufferEnqueueExp: the steps run in order, the first failure ends
\* the call. wait/start/launch/record are the results of enqueueEventsWait,
\* RetImplEvent->start(), hipGraphLaunch and RetImplEvent->record().
\* Returns the result, the steps run, whether *phEvent was written, whether
\* the graph was launched, and the command buffer as the call leaves it: the
\* call reads HIPGraphExec and writes no member.
HipEnqueue(CommandBuffer, wantEvent, wait, start, launch, record) ==
    IF wait # "SUCCESS"
    THEN [Result |-> wait, steps |-> <<"wait">>, eventOut |-> FALSE, launched |-> FALSE,
          CommandBuffer |-> CommandBuffer]
    ELSE IF wantEvent /\ start # "SUCCESS"
    THEN [Result |-> start, steps |-> <<"wait", "start">>, eventOut |-> FALSE,
          launched |-> FALSE,
          CommandBuffer |-> CommandBuffer]
    ELSE LET pre == IF wantEvent THEN <<"wait", "start">> ELSE <<"wait">>
         IN  IF launch # "SUCCESS"
             THEN [Result |-> launch, steps |-> Append(pre, "launch"),
                   eventOut |-> FALSE, launched |-> FALSE,
          CommandBuffer |-> CommandBuffer]
             ELSE IF wantEvent /\ record # "SUCCESS"
             THEN [Result |-> record, steps |-> pre \o <<"launch", "record">>,
                   eventOut |-> FALSE, launched |-> TRUE,
          CommandBuffer |-> CommandBuffer]
             ELSE [Result |-> "SUCCESS",
                   steps |-> IF wantEvent THEN pre \o <<"launch", "record">>
                             ELSE Append(pre, "launch"),
                   eventOut |-> wantEvent, launched |-> TRUE,
          CommandBuffer |-> CommandBuffer]

\* hipGraphLaunch of a null executable graph is rejected by the runtime.
hipGraphLaunchResults(CommandBuffer) ==
    IF CommandBuffer.HIPGraphExec = NullExec THEN NativeFaults ELSE NativeResults

\* The results of the native calls are explored with every step failing,
\* and with one failing step; the result of a step the call does not reach
\* is then taken once, and so is that of the event's steps when no event is
\* requested.
Hip_urCommandBufferEnqueueExp ==
    \E wantEvent \in BOOLEAN, wait \in NativeResults,
       start \in NativeResults, record \in NativeResults,
       launch \in hipGraphLaunchResults(hip) :
        LET E == HipEnqueue(hip, wantEvent, wait, start, launch, record)
            launchDefault ==
                launch = "SUCCESS" \/ "SUCCESS" \notin hipGraphLaunchResults(hip)
        IN  /\ HipRunning
            /\ \/ /\ wantEvent
                  /\ {wait, start, launch, record} \cap {"SUCCESS"} = {}
               \/ /\ ~wantEvent => (start = "SUCCESS" /\ record = "SUCCESS")
                  /\ wait # "SUCCESS" =>
                         (start = "SUCCESS" /\ record = "SUCCESS" /\ launchDefault)
                  /\ start # "SUCCESS" => (record = "SUCCESS" /\ launchDefault)
                  /\ launch # "SUCCESS" => record = "SUCCESS"
            /\ hip' = E.CommandBuffer
            /\ hipLast' = [HipCall("Enqueue", <<>>, E.Result, NoSyncPoint,
                                   E.steps, E.eventOut, E.launched)
                               EXCEPT !.args = [wantEvent |-> wantEvent, wait |-> wait,
                                                start |-> start, launch |-> launch,
                                                record |-> record]]
            /\ UNCHANGED <<clVars, auxVars>>

\* urCommandBufferCreateExp: the descriptor is not read. alloc is the outcome
\* of `new` ("ok", "bad_alloc" or "other" for any other exception), native
\* the result of hipGraphCreate. Returns the result, whether *phCommandBuffer
\* was written, and the object.
HipAllocOutcomes == {"ok", "bad_alloc", "other"}
HipCreate(isUpdatable, DeviceSupportsUpdate, alloc, native) ==
    IF alloc = "bad_alloc"
    THEN [Result |-> "OUT_OF_HOST_MEMORY", handleOut |-> FALSE,
          CommandBuffer |-> HipNoCommandBuffer]
    ELSE IF alloc # "ok"
    THEN [Result |-> "UNKNOWN", handleOut |-> FALSE,
          CommandBuffer |-> HipNoCommandBuffer]
    ELSE IF native # "SUCCESS"
    THEN [Result |-> "OUT_OF_RESOURCES", handleOut |-> TRUE,
          CommandBuffer |-> HipNewCommandBuffer]
    ELSE [Result |-> "SUCCESS", handleOut |-> TRUE,
          CommandBuffer |-> [HipNewCommandBuffer EXCEPT !.phase = "ready"]]

\* The caller creates one command buffer.
Hip_urCommandBufferCreateExp ==
    \E isUpdatable \in BOOLEAN, DeviceSupportsUpdate \in BOOLEAN,
       alloc \in HipAllocOutcomes, native \in NativeResults :
        LET O == HipCreate(isUpdatable, DeviceSupportsUpdate, alloc, native)
        IN  /\ clLast.op = "none"
            /\ thr.adapter = "none"
            /\ ev.scenario = "none"
            /\ ctx.part = "none"
            /\ hip.phase = "none"
            /\ hipLast.op = "none"
            /\ hip' = O.CommandBuffer
            /\ hipLast' = [HipCall("Create", <<>>, O.Result, NoSyncPoint,
                                   <<>>, FALSE, FALSE)
                               EXCEPT !.isUpdatable = isUpdatable,
                                      !.handleOut = O.handleOut,
                                      !.DeviceSupportsUpdate = DeviceSupportsUpdate]
            /\ UNCHANGED <<clVars, auxVars>>

\* hipGraphExecDestroy of a null executable graph is rejected by the runtime.
hipGraphExecDestroyResults(CommandBuffer) ==
    IF CommandBuffer.HIPGraphExec = NullExec THEN NativeFaults ELSE NativeResults

\* The command buffer object after delete.
HipDestroyed ==
    [HipNoCommandBuffer EXCEPT !.phase = "destroyed"]

\* ~ur_exp_command_buffer_handle_t_(): UR_CHECK_ERROR(hipGraphDestroy(HIPGraph))
\* then UR_CHECK_ERROR(hipGraphExecDestroy(HIPGraphExec)), with the results
\* graphDestroy and execDestroy. UR_CHECK_ERROR throws on an error, and an
\* exception that leaves a destructor ends the process (std::terminate).
\* Returns the result and the number of successful destroy calls.
HipDestructor(CommandBuffer, graphDestroy, execDestroy) ==
    IF graphDestroy # "SUCCESS"
    THEN [Result |-> "SIGABRT", graphDestroys |-> 0, execDestroys |-> 0]
    ELSE IF execDestroy # "SUCCESS"
    THEN [Result |-> "SIGABRT", graphDestroys |-> 1, execDestroys |-> 0]
    ELSE [Result |-> "SUCCESS", graphDestroys |-> 1, execDestroys |-> 1]

\* urCommandBufferRetainExp
HipRetain(CommandBuffer) ==
    [CommandBuffer EXCEPT !.RefCount = @ + 1]

\* urCommandBufferReleaseExp: the object is deleted when the decremented
\* count is zero.
HipRelease(CommandBuffer, graphDestroy, execDestroy) ==
    LET n == CommandBuffer.RefCount - 1
    IN  IF n # 0
        THEN [Result |-> "SUCCESS", graphDestroys |-> 0, execDestroys |-> 0,
              CommandBuffer |-> [CommandBuffer EXCEPT !.RefCount = n]]
        ELSE LET D == HipDestructor(CommandBuffer, graphDestroy, execDestroy)
             IN  [Result |-> D.Result, graphDestroys |-> D.graphDestroys,
                  execDestroys |-> D.execDestroys, CommandBuffer |-> HipDestroyed]

\* The caller holds a reference to a live command buffer in a running process.
HipHeld ==
    /\ clLast.op = "none"
    /\ hip.phase = "ready"
    /\ hipLast.result \notin {"SIGFPE", "SIGABRT"}

Hip_urCommandBufferRetainExp ==
    /\ HipHeld
    /\ hip.RefCount <= MaxRetain
    /\ hip' = HipRetain(hip)
    /\ hipLast' = HipCall("Retain", <<>>, "SUCCESS", NoSyncPoint, <<>>, FALSE, FALSE)
    /\ UNCHANGED <<clVars, auxVars>>

Hip_urCommandBufferReleaseExp ==
    \E graphDestroy \in NativeResults, execDestroy \in hipGraphExecDestroyResults(hip) :
        LET O == HipRelease(hip, graphDestroy, execDestroy)
        IN  /\ HipHeld
            /\ hip' = O.CommandBuffer
            /\ hipLast' = [HipCall("Release", <<>>, O.Result, NoSyncPoint,
                                   <<>>, FALSE, FALSE)
                               EXCEPT !.prevOp = hipLast.op,
                                      !.graphDestroys = O.graphDestroys,
                                      !.execDestroys = O.execDestroys,
                                      !.driverFault =
                                          \/ graphDestroy # "SUCCESS"
                                          \/ /\ execDestroy # "SUCCESS"
                                             /\ hip.HIPGraphExec # NullExec]
            /\ UNCHANGED <<clVars, auxVars>>

HipInit ==
    /\ hip = HipNoCommandBuffer
    /\ hipLast = [op |-> "none", wl |-> <<>>,
                  result |-> "SUCCESS", syncPoint |-> NoSyncPoint, steps |-> <<>>,
                  eventOut |-> FALSE, launched |-> FALSE,
                  isUpdatable |-> FALSE, DeviceSupportsUpdate |-> FALSE,
                  handleOut |-> FALSE, args |-> <<>>,
                  nodesBefore |-> 0, nextBefore |-> 0, execBefore |-> NullExec,
                  refBefore |-> 0, prevOp |-> "none",
                  graphDestroys |-> 0, execDestroys |-> 0, driverFault |-> FALSE]

HipNext ==
    \/ Hip_urCommandBufferCreateExp
    \/ Hip_urCommandBufferRetainExp
    \/ Hip_urCommandBufferReleaseExp
    \/ Hip_urCommandBufferAppendKernelLaunchExp
    \/ Hip_urCommandBufferAppendUSMMemcpyExp
    \/ Hip_urCommandBufferAppendMemBufferCopyExp
    \/ Hip_urCommandBufferAppendMemBufferCopyRectExp
    \/ Hip_urCommandBufferAppendMemBufferWriteExp
    \/ Hip_urCommandBufferAppendMemBufferReadExp
    \/ Hip_urCommandBufferAppendMemBufferWriteRectExp
    \/ Hip_urCommandBufferAppendMemBufferReadRectExp
    \/ Hip_urCommandBufferAppendUSMPrefetchExp
    \/ Hip_urCommandBufferAppendUSMAdviseExp
    \/ Hip_urCommandBufferAppendMemBufferFillExp
    \/ Hip_urCommandBufferAppendUSMFillExp
    \/ Hip_urCommandBufferFinalizeExp
    \/ Hip_urCommandBufferEnqueueExp

(***************************************************************************)
(* OpenCL adapter: data                                                    *)
(***************************************************************************)

\* No command buffer has been created. Commands counts the commands recorded in
\* the native cl_command_buffer_khr, destroyed the runs of the destructor,
\* Queues and CLBuffers the internal queues and native command buffers that
\* have been created and not released.
ClNoCommandBuffer ==
    [alive |-> FALSE, IsUpdatable |-> FALSE, IsFinalized |-> FALSE,
     RefCountInternal |-> 0, RefCountExternal |-> 0,
     CommandHandles |-> <<>>, Commands |-> 0, destroyed |-> 0,
     Queues |-> 0, CLBuffers |-> 0]

\* ur_exp_command_buffer_handle_t_(hQueue, hContext, CLCommandBuffer,
\* IsUpdatable): the buffer starts with one external reference, and one
\* internal reference for it.
ClNewCommandBuffer(IsUpdatable) ==
    [ClNoCommandBuffer EXCEPT !.alive = TRUE, !.IsUpdatable = IsUpdatable,
                              !.RefCountInternal = 1, !.RefCountExternal = 1]

\* ur_exp_command_buffer_command_handle_t_(hCommandBuffer, CLMutableCommand,
\* WorkDim): the handle starts with one external and one internal reference.
\* CLMutableCommand is TRUE for a non-null cl_mutable_command_khr. Updates
\* counts the configurations the driver has applied to the command's
\* arguments and ND-range since it was recorded.
ClNewCommandHandle(CLMutableCommand, WorkDim) ==
    [alive |-> TRUE, CLMutableCommand |-> CLMutableCommand, WorkDim |-> WorkDim,
     RefCountInternal |-> 1, RefCountExternal |-> 1, destroyed |-> 0,
     Updates |-> 0]

\* What a use of a destroyed object does: its freed counter reads as some
\* value ("nonzero": the decrement does not reach zero; "zero": it does, and
\* the object is deleted a second time), and the allocator may abort the
\* process at the second delete.
UBOutcomes == {"nonzero", "zero", "abort"}

\* The objects during a call: the buffer, the command handles, the internal
\* releases performed so far (in order), whether a destroyed object was used,
\* whether the process was aborted.
ClMachine(buffer, commands) ==
    [cl |-> buffer, clCmd |-> commands, trace |-> <<>>, stale |-> FALSE,
     aborted |-> FALSE]

\* ~ur_exp_command_buffer_handle_t_(): urQueueRelease(hInternalQueue),
\* clReleaseCommandBufferKHR(CLCommandBuffer).
ClDestructor(buffer) ==
    [buffer EXCEPT !.alive = FALSE, !.destroyed = @ + 1,
                   !.Queues = @ - 1, !.CLBuffers = @ - 1]

\* commandBufferReleaseInternal. who names the caller in the trace:
\* <<"own", 0>> for urCommandBufferReleaseExp, <<"parent", h>> for the release
\* of command handle h.
commandBufferReleaseInternal(M, who, ub) ==
    IF M.aborted THEN M
    ELSE IF M.cl.alive
    THEN LET n == M.cl.RefCountInternal - 1
             M1 == [M EXCEPT !.cl.RefCountInternal = n, !.trace = Append(@, who)]
         IN  IF n # 0 THEN M1 ELSE [M1 EXCEPT !.cl = ClDestructor(@)]
    ELSE [M EXCEPT !.stale = TRUE,
                   !.trace = Append(@, who),
                   !.cl.destroyed = @ + (IF ub = "nonzero" THEN 0 ELSE 1),
                   !.aborted = (ub = "abort")]

\* A release of a command handle that deletes the handle at zero without
\* releasing the parent buffer.
commandHandleReleaseInternal_NoParentRelease(M, h, ub) ==
    LET M1 == [M EXCEPT !.trace = Append(@, <<"command", h>>)]
    IN  IF ~M.clCmd[h].alive THEN [M1 EXCEPT !.stale = TRUE]
        ELSE LET n == M.clCmd[h].RefCountInternal - 1
             IN  [M1 EXCEPT !.clCmd[h].RefCountInternal = n,
                            !.clCmd[h].alive = (n # 0),
                            !.clCmd[h].destroyed = @ + (IF n = 0 THEN 1 ELSE 0)]

\* commandHandleReleaseInternal
commandHandleReleaseInternal(M, h, ub) ==
    IF M.aborted THEN M
    ELSE LET M1 == [M EXCEPT !.trace = Append(@, <<"command", h>>)]
         IN  IF M.clCmd[h].alive
             THEN LET n == M.clCmd[h].RefCountInternal - 1
                      M2 == [M1 EXCEPT !.clCmd[h].RefCountInternal = n]
                  IN  IF n # 0 THEN M2
                      ELSE LET M3 == commandBufferReleaseInternal(M2, <<"parent", h>>, ub)
                           IN  IF M3.aborted THEN M3
                               ELSE [M3 EXCEPT !.clCmd[h].alive = FALSE,
                                               !.clCmd[h].destroyed = @ + 1]
             ELSE LET M2 == [M1 EXCEPT !.stale = TRUE]
                  IN  IF ub = "nonzero" THEN M2
                      ELSE LET M3 == commandBufferReleaseInternal(M2, <<"parent", h>>, ub)
                           IN  IF M3.aborted THEN M3
                               ELSE [M3 EXCEPT !.clCmd[h].destroyed = @ + 1,
                                               !.aborted = (ub = "abort")]

\* for (auto Command : hCommandBuffer->CommandHandles)
\*     commandHandleReleaseInternal(Command);
RECURSIVE ClReleaseCommands(_, _, _, _)
ClReleaseCommands(M, CommandHandles, i, ub) ==
    IF i > Len(CommandHandles) THEN M
    ELSE ClReleaseCommands(commandHandleReleaseInternal(M, CommandHandles[i], ub),
                           CommandHandles, i + 1, ub)

\* A release of the buffer that cascades to the command handles whatever the
\* external count has become.
urCommandBufferReleaseExp_AlwaysCascade(M, ub) ==
    LET M1 == [M EXCEPT !.cl.RefCountExternal = @ - 1]
    IN  commandBufferReleaseInternal(
            ClReleaseCommands(M1, M1.cl.CommandHandles, 1, ub), <<"own", 0>>, ub)

\* urCommandBufferReleaseExp
urCommandBufferReleaseExp(M, ub) ==
    LET n == M.cl.RefCountExternal - 1
        M1 == [M EXCEPT !.cl.RefCountExternal = n]
        M2 == IF n = 0 THEN ClReleaseCommands(M1, M1.cl.CommandHandles, 1, ub)
              ELSE M1
    IN  commandBufferReleaseInternal(M2, <<"own", 0>>, ub)

\* A retain that takes the internal reference only.
urCommandBufferRetainExp_InternalOnly(buffer) ==
    [buffer EXCEPT !.RefCountInternal = @ + 1]

\* urCommandBufferRetainExp
urCommandBufferRetainExp(buffer) ==
    [buffer EXCEPT !.RefCountInternal = @ + 1, !.RefCountExternal = @ + 1]

\* urCommandBufferReleaseCommandExp
urCommandBufferReleaseCommandExp(M, h, ub) ==
    LET M1 == IF M.clCmd[h].alive
              THEN [M EXCEPT !.clCmd[h].RefCountExternal = @ - 1]
              ELSE [M EXCEPT !.stale = TRUE]
    IN  commandHandleReleaseInternal(M1, h, ub)

\* urCommandBufferRetainCommandExp
urCommandBufferRetainCommandExp(M, h) ==
    IF M.clCmd[h].alive
    THEN [M EXCEPT !.clCmd[h].RefCountExternal = @ + 1,
                   !.clCmd[h].RefCountInternal = @ + 1]
    ELSE [M EXCEPT !.stale = TRUE]

\* The constructor of a command handle takes an internal reference on its
\* parent buffer. The new handle's id is its position in clCmd.
ClConstructCommandHandle(buffer, commands, CLMutableCommand, WorkDim) ==
    [cl |-> [buffer EXCEPT !.RefCountInternal = @ + 1],
     clCmd |-> Append(commands, ClNewCommandHandle(CLMutableCommand, WorkDim))]

\* What the driver answers to clCommandNDRangeKernelKHR and
\* clFinalizeCommandBufferKHR (CL_INVALID_OPERATION on a finalized
\* cl_command_buffer_khr), and to clEnqueueCommandBufferKHR
\* (CL_INVALID_OPERATION on one that is not finalized), as CL_RETURN_ON_FAILURE
\* reports it.
clRecordingResults(buffer) ==
    IF buffer.IsFinalized THEN {"INVALID_OPERATION"} ELSE NativeResults
clEnqueueCommandBufferKHRResults(buffer) ==
    IF buffer.IsFinalized THEN NativeResults ELSE {"INVALID_OPERATION"}

ClOutcome(Result, handle, buffer, commands) ==
    [Result |-> Result, handle |-> handle, cl |-> buffer, clCmd |-> commands]

\* urCommandBufferAppendKernelLaunchExp. extFn: the extension entry point was
\* found; alloc: make_unique did not throw; wantHandle: phCommandHandle is not
\* null. handle is the value written to *phCommandHandle (0: not written).
ClAppendKernelLaunch(buffer, commands, extFn, native, alloc, wantHandle, workDim) ==
    IF ~extFn THEN ClOutcome("INVALID_OPERATION", 0, buffer, commands)
    ELSE IF native # "SUCCESS" THEN ClOutcome(native, 0, buffer, commands)
    ELSE LET recorded == [buffer EXCEPT !.Commands = @ + 1]
         IN  IF ~alloc THEN ClOutcome("OUT_OF_RESOURCES", 0, recorded, commands)
             ELSE LET N == ClConstructCommandHandle(recorded, commands,
                                                    buffer.IsUpdatable, workDim)
                      h == Len(N.clCmd)
                  IN  IF ~wantHandle
                      THEN ClOutcome("SIGSEGV", 0, N.cl, N.clCmd)
                      ELSE ClOutcome("SUCCESS", h,
                                     [N.cl EXCEPT !.CommandHandles = Append(@, h)],
                                     N.clCmd)

\* urCommandBufferCreateExp. queue: the result of urQueueCreate; extFn: the
\* extension entry point was found; query: the result of
\* deviceSupportsURCommandBufferKernelUpdate; native: the result of
\* clCreateCommandBufferKHR; alloc: make_unique did not throw.
ClCreate(buffer, queue, extFn, isUpdatable, query, DeviceSupportsUpdate, native, alloc) ==
    IF queue # "SUCCESS" THEN ClOutcome(queue, 0, buffer, <<>>)
    ELSE LET B1 == [buffer EXCEPT !.Queues = @ + 1]
         IN  IF ~extFn THEN ClOutcome("INVALID_OPERATION", 0, B1, <<>>)
             ELSE IF query # "SUCCESS" THEN ClOutcome(query, 0, B1, <<>>)
             ELSE IF isUpdatable /\ ~DeviceSupportsUpdate
             THEN ClOutcome("INVALID_OPERATION", 0, B1, <<>>)
             ELSE IF native # "SUCCESS" THEN ClOutcome(native, 0, B1, <<>>)
             ELSE LET B2 == [B1 EXCEPT !.CLBuffers = @ + 1]
                  IN  IF ~alloc THEN ClOutcome("OUT_OF_RESOURCES", 0, B2, <<>>)
                      ELSE ClOutcome("SUCCESS", 0,
                                     [ClNewCommandBuffer(isUpdatable) EXCEPT
                                          !.Queues = B2.Queues,
                                          !.CLBuffers = B2.CLBuffers], <<>>)

\* A finalize that does not look at the result of the native call.
ClFinalize_IgnoreNative(buffer, extFn, native) ==
    IF ~extFn THEN ClOutcome("INVALID_OPERATION", 0, buffer, <<>>)
    ELSE ClOutcome("SUCCESS", 0, [buffer EXCEPT !.IsFinalized = TRUE], <<>>)

\* urCommandBufferFinalizeExp
ClFinalize(buffer, extFn, native) ==
    IF ~extFn THEN ClOutcome("INVALID_OPERATION", 0, buffer, <<>>)
    ELSE IF native # "SUCCESS" THEN ClOutcome(native, 0, buffer, <<>>)
    ELSE ClOutcome("SUCCESS", 0, [buffer EXCEPT !.IsFinalized = TRUE], <<>>)

\* urCommandBufferAppendMemBufferCopyExp, ...CopyRectExp, ...FillExp: the
\* native command is recorded by the driver; no command handle is made.
ClAppendNative(buffer, commands, extFn, native) ==
    IF ~extFn THEN ClOutcome("INVALID_OPERATION", 0, buffer, commands)
    ELSE IF native # "SUCCESS" THEN ClOutcome(native, 0, buffer, commands)
    ELSE ClOutcome("SUCCESS", 0, [buffer EXCEPT !.Commands = @ + 1], commands)

\* The appends the adapter does not implement return UNSUPPORTED_FEATURE.
ClAppendUnsupported(buffer, commands) ==
    ClOutcome("UNSUPPORTED_FEATURE", 0, buffer, commands)

\* urCommandBufferAppendMemBufferWriteExp: cl_adapter::die ends the process
\* before the return statement.
ClAppendMemBufferWrite(buffer, commands) ==
    ClOutcome("SIGABRT", 0, buffer, commands)

\* What a write past the end of a heap block does: nothing that shows, an
\* abort at the write (a checking allocator or sanitizer), or zeroes in the
\* object the allocator placed there.
OverflowOutcomes == {"none", "abort", "corrupt"}
OverflowFields == {"CLMutableCommand", "WorkDim"}

\* A command handle with the words of field f overwritten by zeroes.
ClZeroField(command, f) ==
    IF f = "WorkDim" THEN [command EXCEPT !.WorkDim = 0]
    ELSE [command EXCEPT !.CLMutableCommand = FALSE]

\* The record of an update: the result, the objects after the call, the
\* commands named by the configurations handed to clUpdateMutableCommandsKHR
\* (in call order), and what the write past the ND-range vectors did
\* ("absent": no such write).
ClUpdateOutcome(Result, buffer, commands, named, overflow) ==
    [Result |-> Result, cl |-> buffer, clCmd |-> commands, named |-> named,
     overflow |-> overflow]

\* An update that calls the driver before it looks at the buffer's flags.
ClUpdateKernelLaunch_NativeFirst(buffer, commands, h, extFn, execInfoValid, newWorkDim, ndrange, native, overflow, victim) ==
    IF ~extFn
    THEN ClUpdateOutcome("INVALID_OPERATION", buffer, commands, <<>>, "absent")
    ELSE IF ~buffer.IsFinalized \/ ~buffer.IsUpdatable
    THEN ClUpdateOutcome("INVALID_OPERATION", buffer, commands, <<h>>, "absent")
    ELSE ClUpdateOutcome(native, buffer,
                         IF native = "SUCCESS"
                         THEN [commands EXCEPT ![h].Updates = @ + 1]
                         ELSE commands, <<h>>, "absent")

\* urCommandBufferUpdateKernelLaunchExp on command h of the buffer. extFn:
\* clUpdateMutableCommandsKHR was found; execInfoValid: every propName of the
\* new exec-info list is one the loop accepts; ndrange: one of
\* pNewGlobalWorkOffset, pNewGlobalWorkSize, pNewLocalWorkSize is not null;
\* native: the result of clUpdateMutableCommandsKHR. Each ND-range vector is
\* resized to WorkDim elements and, when WorkDim < 3, the 3 - WorkDim elements
\* after its end are set to zero: overflow and victim (a command handle and
\* one of its fields) say what that write does.
ClUpdateKernelLaunch(buffer, commands, h, extFn, execInfoValid, newWorkDim, ndrange, native, overflow, victim) ==
    IF ~extFn
    THEN ClUpdateOutcome("INVALID_OPERATION", buffer, commands, <<>>, "absent")
    ELSE IF ~buffer.IsFinalized \/ ~buffer.IsUpdatable
    THEN ClUpdateOutcome("INVALID_OPERATION", buffer, commands, <<>>, "absent")
    ELSE IF ~execInfoValid
    THEN ClUpdateOutcome("INVALID_ENUMERATION", buffer, commands, <<>>, "absent")
    ELSE IF newWorkDim # 0 /\ newWorkDim # commands[h].WorkDim
    THEN ClUpdateOutcome("UNSUPPORTED_FEATURE", buffer, commands, <<>>, "absent")
    ELSE LET writesPastEnd == ndrange /\ commands[h].WorkDim < 3
             did == IF writesPastEnd THEN overflow ELSE "absent"
             heap == IF did = "corrupt"
                     THEN [commands EXCEPT
                               ![victim[1]] = ClZeroField(@, victim[2])]
                     ELSE commands
         IN  IF did = "abort"
             THEN ClUpdateOutcome("SIGABRT", buffer, commands, <<>>, did)
             ELSE ClUpdateOutcome(native, buffer,
                                  IF native = "SUCCESS"
                                  THEN [heap EXCEPT ![h].Updates = @ + 1]
                                  ELSE heap, <<h>>, did)

\* urCommandBufferEnqueueExp: the result of the call.
ClEnqueue(buffer, extFn, native) ==
    [Result |-> IF ~extFn THEN "INVALID_OPERATION" ELSE native,
     buffer |-> buffer]

\* urCommandBufferGetInfoExp with a property slot large enough for the
\* value. An unknown property trips the assert in a build with assertions and
\* returns INVALID_ENUMERATION in a build without.
ClInfoProps == {"REFERENCE_COUNT", "OTHER"}
ClGetInfo(buffer, propName, asserts) ==
    IF propName = "REFERENCE_COUNT"
    THEN [Result |-> "SUCCESS", value |-> buffer.RefCountExternal]
    ELSE [Result |-> IF asserts THEN "SIGABRT" ELSE "INVALID_ENUMERATION",
          value |-> 0]

(***************************************************************************)
(* OpenCL adapter: actions                                                 *)
(***************************************************************************)
ClWorkDims == {1, 3}

\* The record of a call: the operation, the command handle it was called on
\* (0: none), whether a command handle was requested, the result, the handle
\* returned, the internal releases performed, whether a destroyed object was
\* used, the value written to the caller's property slot (get-info), the
\* descriptor's isUpdatable and the device's update support (create), the
\* descriptor's newWorkDim, whether it carries an ND-range, the commands named
\* to the driver and what the write past the ND-range vectors did (update),
\* and the objects as they were when the call was made.
ClCall(op, h, wantHandle, result, handle, trace, stale) ==
    [op |-> op, h |-> h, wantHandle |-> wantHandle, result |-> result,
     handle |-> handle, trace |-> trace, stale |-> stale, value |-> 0,
     isUpdatable |-> FALSE, DeviceSupportsUpdate |-> FALSE,
     newWorkDim |-> 0, ndrange |-> FALSE, named |-> <<>>, overflow |-> "absent",
     before |-> [cl |-> cl, clCmd |-> clCmd]]

\* The result of a call that ran on machine M.
ClResultOf(M) == IF M.aborted THEN "SIGABRT" ELSE "SUCCESS"

\* The process is running, and has neither used a destroyed object nor
\* overwritten another object's memory: what follows is not defined.
ClRunning ==
    /\ hipLast.op = "none"
    /\ thr.adapter = "none"
    /\ ev.scenario = "none"
    /\ ctx.part = "none"
    /\ clLast.result \notin {"SIGSEGV", "SIGABRT"}
    /\ ~clLast.stale
    /\ clLast.overflow # "corrupt"

\* The caller creates one command buffer; a call that failed and leaked the
\* internal queue is not repeated.
Cl_urCommandBufferCreateExp ==
    \E queue \in NativeResults, extFn \in BOOLEAN, isUpdatable \in BOOLEAN,
       query \in NativeResults, DeviceSupportsUpdate \in BOOLEAN,
       native \in NativeResults, alloc \in BOOLEAN :
        LET O == ClCreate(cl, queue, extFn, isUpdatable, query,
                          DeviceSupportsUpdate, native, alloc)
        IN  /\ ClRunning
            /\ cl = ClNoCommandBuffer
            /\ cl' = O.cl
            /\ clHeld' = [clHeld EXCEPT !.buf = IF O.Result = "SUCCESS" THEN 1 ELSE 0]
            /\ clLast' = [ClCall("Create", 0, FALSE, O.Result, 0, <<>>, FALSE)
                              EXCEPT !.isUpdatable = isUpdatable,
                                     !.DeviceSupportsUpdate = DeviceSupportsUpdate]
            /\ UNCHANGED <<clCmd, hipVars, auxVars>>

Cl_urCommandBufferRetainExp ==
    /\ ClRunning
    /\ clHeld.buf \in 1 .. MaxRetain
    /\ cl' = urCommandBufferRetainExp(cl)
    /\ clHeld' = [clHeld EXCEPT !.buf = @ + 1]
    /\ clLast' = ClCall("Retain", 0, FALSE, "SUCCESS", 0, <<>>, FALSE)
    /\ UNCHANGED <<clCmd, hipVars, auxVars>>

Cl_urCommandBufferReleaseExp ==
    \E ub \in UBOutcomes :
        LET M == urCommandBufferReleaseExp(ClMachine(cl, clCmd), ub)
        IN  /\ ClRunning
            /\ clHeld.buf > 0
            /\ cl' = M.cl
            /\ clCmd' = M.clCmd
            /\ clHeld' = [clHeld EXCEPT !.buf = @ - 1]
            /\ clLast' = ClCall("Release", 0, FALSE, ClResultOf(M), 0, M.trace, M.stale)
            /\ UNCHANGED <<hipVars, auxVars>>

Cl_urCommandBufferFinalizeExp ==
    \E extFn \in BOOLEAN, native \in clRecordingResults(cl) :
        LET O == ClFinalize(cl, extFn, native)
        IN  /\ ClRunning
            /\ clHeld.buf > 0
            /\ cl' = O.cl
            /\ clLast' = ClCall("Finalize", 0, FALSE, O.Result, 0, <<>>, FALSE)
            /\ UNCHANGED <<clCmd, clHeld, hipVars, auxVars>>

Cl_urCommandBufferAppendKernelLaunchExp ==
    \E extFn \in BOOLEAN, native \in clRecordingResults(cl), alloc \in BOOLEAN,
       wantHandle \in BOOLEAN, workDim \in ClWorkDims :
        LET O == ClAppendKernelLaunch(cl, clCmd, extFn, native, alloc, wantHandle,
                                      workDim)
        IN  /\ ClRunning
            /\ clHeld.buf > 0
            /\ O.cl.Commands <= MaxHandles
            /\ cl' = O.cl
            /\ clCmd' = O.clCmd
            /\ clHeld' = IF Len(O.clCmd) > Len(clCmd)
                         THEN [clHeld EXCEPT !.cmd = Append(@, IF O.handle # 0 THEN 1 ELSE 0)]
                         ELSE clHeld
            /\ clLast' = ClCall("AppendKernelLaunch", 0, wantHandle, O.Result,
                                O.handle, <<>>, FALSE)
            /\ UNCHANGED <<hipVars, auxVars>>

\* An append call without command handle, with outcome O.
ClAppend(op, O) ==
    /\ ClRunning
    /\ clHeld.buf > 0
    /\ O.cl.Commands <= MaxHandles
    /\ cl' = O.cl
    /\ clLast' = ClCall(op, 0, FALSE, O.Result, 0, <<>>, FALSE)
    /\ UNCHANGED <<clCmd, clHeld, hipVars, auxVars>>

Cl_urCommandBufferAppendUSMMemcpyExp ==
    ClAppend("AppendUSMMemcpy", ClAppendUnsupported(cl, clCmd))

Cl_urCommandBufferAppendUSMFillExp ==
    ClAppend("AppendUSMFill", ClAppendUnsupported(cl, clCmd))

Cl_urCommandBufferAppendMemBufferCopyExp ==
    \E extFn \in BOOLEAN, native \in clRecordingResults(cl) :
        ClAppend("AppendMemBufferCopy", ClAppendNative(cl, clCmd, extFn, native))

Cl_urCommandBufferAppendMemBufferCopyRectExp ==
    \E extFn \in BOOLEAN, native \in clRecordingResults(cl) :
        ClAppend("AppendMemBufferCopyRect", ClAppendNative(cl, clCmd, extFn, native))

Cl_urCommandBufferAppendMemBufferWriteExp ==
    ClAppend("AppendMemBufferWrite", ClAppendMemBufferWrite(cl, clCmd))

Cl_urCommandBufferAppendMemBufferReadExp ==
    ClAppend("AppendMemBufferRead", ClAppendUnsupported(cl, clCmd))

Cl_urCommandBufferAppendMemBufferWriteRectExp ==
    ClAppend("AppendMemBufferWriteRect", ClAppendUnsupported(cl, clCmd))

Cl_urCommandBufferAppendMemBufferReadRectExp ==
    ClAppend("AppendMemBufferReadRect", ClAppendUnsupported(cl, clCmd))

Cl_urCommandBufferAppendMemBufferFillExp ==
    \E extFn \in BOOLEAN, native \in clRecordingResults(cl) :
        ClAppend("AppendMemBufferFill", ClAppendNative(cl, clCmd, extFn, native))

Cl_urCommandBufferAppendUSMPrefetchExp ==
    ClAppend("AppendUSMPrefetch", ClAppendUnsupported(cl, clCmd))

Cl_urCommandBufferAppendUSMAdviseExp ==
    ClAppend("AppendUSMAdvise", ClAppendUnsupported(cl, clCmd))

Cl_urCommandBufferEnqueueExp ==
    \E extFn \in BOOLEAN, native \in clEnqueueCommandBufferKHRResults(cl) :
        LET E == ClEnqueue(cl, extFn, native)
        IN  /\ ClRunning
            /\ clHeld.buf > 0
            /\ cl' = E.buffer
            /\ clLast' = ClCall("Enqueue", 0, FALSE, E.Result, 0, <<>>, FALSE)
            /\ UNCHANGED <<clCmd, clHeld, hipVars, auxVars>>

\* The values of newWorkDim: 0 (the descriptor carries no ND-range change)
\* and the dimensionalities commands are recorded with.
ClNewWorkDims == {0} \cup ClWorkDims

\* <<extFn, execInfoValid, native>>: an input that differs from another only
\* in a step the call does not reach is taken once.
ClUpdateInputs ==
    {<<FALSE, TRUE, "SUCCESS">>, <<TRUE, FALSE, "SUCCESS">>}
        \cup {<<TRUE, TRUE, r>> : r \in NativeResults}

\* What the write past the end does, and to which other live command handle
\* (0: to none of them).
ClOverflowCases ==
    {<<"none", 0, "WorkDim">>, <<"abort", 0, "WorkDim">>}
        \cup {<<"corrupt", y, f>> : y \in {x \in DOMAIN clCmd : clCmd[x].alive},
                                   f \in OverflowFields}

Cl_urCommandBufferUpdateKernelLaunchExp ==
    /\ ClRunning
    /\ cl.alive
    /\ \E h \in {x \in DOMAIN clCmd : clHeld.cmd[x] > 0 /\ clCmd[x].alive},
          i \in ClUpdateInputs, newWorkDim \in ClNewWorkDims,
          ndrange \in BOOLEAN, c \in ClOverflowCases :
        LET extFn == i[1]
            execInfoValid == i[2]
            native == i[3]
            overflow == c[1]
            victim == <<IF c[2] = 0 THEN h ELSE c[2], c[3]>>
            O == ClUpdateKernelLaunch(cl, clCmd, h, extFn, execInfoValid,
                                      newWorkDim, ndrange, native, overflow, victim)
        IN  /\ c[2] # h
            /\ (ndrange /\ clCmd[h].WorkDim < 3) \/ overflow = "none"
            /\ (extFn /\ execInfoValid) \/ (newWorkDim = 0 /\ ~ndrange)
            /\ O.clCmd[h].Updates <= MaxUpdates
            /\ Cardinality({y \in DOMAIN O.clCmd : O.clCmd[y].Updates > 0})
                   <= MaxUpdates
            /\ cl' = O.cl
            /\ clCmd' = O.clCmd
            /\ clLast' = [ClCall("UpdateKernelLaunch", h, FALSE, O.Result, 0,
                                 <<>>, FALSE) EXCEPT
                              !.newWorkDim = newWorkDim, !.ndrange = ndrange,
                              !.named = O.named, !.overflow = O.overflow]
            /\ UNCHANGED <<clHeld, hipVars, auxVars>>

Cl_urCommandBufferRetainCommandExp ==
    \E h \in DOMAIN clCmd :
        LET M == urCommandBufferRetainCommandExp(ClMachine(cl, clCmd), h)
        IN  /\ ClRunning
            /\ clHeld.cmd[h] \in 1 .. MaxRetain
            /\ clCmd' = M.clCmd
            /\ clHeld' = [clHeld EXCEPT !.cmd[h] = @ + 1]
            /\ clLast' = ClCall("RetainCommand", h, FALSE, "SUCCESS", 0, <<>>, M.stale)
            /\ UNCHANGED <<cl, hipVars, auxVars>>

Cl_urCommandBufferReleaseCommandExp ==
    \E h \in DOMAIN clCmd, ub \in UBOutcomes :
        LET M == urCommandBufferReleaseCommandExp(ClMachine(cl, clCmd), h, ub)
        IN  /\ ClRunning
            /\ clHeld.cmd[h] > 0
            /\ cl' = M.cl
            /\ clCmd' = M.clCmd
            /\ clHeld' = [clHeld EXCEPT !.cmd[h] = @ - 1]
            /\ clLast' = ClCall("ReleaseCommand", h, FALSE, ClResultOf(M), 0,
                                M.trace, M.stale)
            /\ UNCHANGED <<hipVars, auxVars>>

Cl_urCommandBufferGetInfoExp ==
    \E propName \in ClInfoProps, asserts \in BOOLEAN :
        LET O == ClGetInfo(cl, propName, asserts)
        IN  /\ ClRunning
            /\ clHeld.buf > 0
            /\ clLast' = [ClCall("GetInfo", 0, FALSE, O.Result, 0, <<>>, FALSE)
                              EXCEPT !.value = O.value]
            /\ UNCHANGED <<cl, clCmd, clHeld, hipVars, auxVars>>

ClInit ==
    /\ cl = ClNoCommandBuffer
    /\ clCmd = <<>>
    /\ clHeld = [buf |-> 0, cmd |-> <<>>]
    /\ clLast = [op |-> "none", h |-> 0, wantHandle |-> FALSE, result |-> "SUCCESS",
                 handle |-> 0, trace |-> <<>>, stale |-> FALSE, value |-> 0,
                 isUpdatable |-> FALSE, DeviceSupportsUpdate |-> FALSE,
                 newWorkDim |-> 0, ndrange |-> FALSE, named |-> <<>>,
                 overflow |-> "absent",
                 before |-> [cl |-> ClNoCommandBuffer, clCmd |-> <<>>]]

ClNext ==
    \/ Cl_urCommandBufferCreateExp
    \/ Cl_urCommandBufferRetainExp
    \/ Cl_urCommandBufferReleaseExp
    \/ Cl_urCommandBufferFinalizeExp
    \/ Cl_urCommandBufferAppendKernelLaunchExp
    \/ Cl_urCommandBufferAppendUSMMemcpyExp
    \/ Cl_urCommandBufferAppendUSMFillExp
    \/ Cl_urCommandBufferAppendMemBufferCopyExp
    \/ Cl_urCommandBufferAppendMemBufferCopyRectExp
    \/ Cl_urCommandBufferAppendMemBufferWriteExp
    \/ Cl_urCommandBufferAppendMemBufferReadExp
    \/ Cl_urCommandBufferAppendMemBufferWriteRectExp
    \/ Cl_urCommandBufferAppendMemBufferReadRectExp
    \/ Cl_urCommandBufferAppendMemBufferFillExp
    \/ Cl_urCommandBufferAppendUSMPrefetchExp
    \/ Cl_urCommandBufferAppendUSMAdviseExp
    \/ Cl_urCommandBufferEnqueueExp
    \/ Cl_urCommandBufferUpdateKernelLaunchExp
    \/ Cl_urCommandBufferRetainCommandExp
    \/ Cl_urCommandBufferReleaseCommandExp
    \/ Cl_urCommandBufferGetInfoExp

(***************************************************************************)
(* Retain and release by several threads. Each thread runs one call at a   *)
(* time; a call is a sequence of steps, and the steps of different threads *)
(* interleave. The counters are std::atomic: an increment or a decrement   *)
(* with its returned value is one step.                                    *)
(***************************************************************************)
Threads == 1 .. NumThreads

\* incrementReferenceCount(): the counter after the call.
ThrIncrement(count) == count + 1

\* decrementReferenceCount(): the counter after the call, which is also the
\* value returned.
ThrDecrement(count) == count - 1

\* A release that deletes unless more than one reference is left.
ThrAfterDecrement_OffByOne(n) == IF n > 1 THEN "idle" ELSE "delete"

\* What follows the last decrement of a release that returned n: the call
\* returns when n is not zero and deletes the buffer otherwise (hip
\* urCommandBufferReleaseExp, opencl commandBufferReleaseInternal).
ThrAfterDecrement(n) == IF n # 0 THEN "idle" ELSE "delete"

\* The buffer and the threads before the buffer is created.
ThrNone ==
    [adapter |-> "none", RefCount |-> 0, RefCountInternal |-> 0,
     RefCountExternal |-> 0, pc |-> [t \in Threads |-> "idle"],
     for |-> [t \in Threads |-> t], owned |-> [t \in Threads |-> 0],
     destroyed |-> 0, deleter |-> 0, stale |-> FALSE]

\* No call has been made on the command buffers of the other parts.
ThrAlone ==
    /\ hip.phase = "none"
    /\ hipLast.op = "none"
    /\ clLast.op = "none"
    /\ ev.scenario = "none"
    /\ ctx.part = "none"

\* A step of a call reads or writes the buffer object: on a deleted object
\* that is a use after free.
ThrTouch(T) == [T EXCEPT !.stale = @ \/ T.destroyed > 0]

\* Thread 1 creates the buffer of adapter a and owns its first reference.
Thr_urCommandBufferCreateExp ==
    \E a \in {"hip", "cl"} :
        /\ ThrAlone
        /\ thr.adapter = "none"
        /\ thr' = [thr EXCEPT !.adapter = a,
                              !.RefCount = IF a = "hip" THEN HipNewCommandBuffer.RefCount ELSE 0,
                              !.RefCountInternal =
                                  IF a = "cl" THEN ClNewCommandBuffer(FALSE).RefCountInternal ELSE 0,
                              !.RefCountExternal =
                                  IF a = "cl" THEN ClNewCommandBuffer(FALSE).RefCountExternal ELSE 0,
                              !.owned[1] = 1]
        /\ UNCHANGED <<hipVars, clVars, ev, ctx>>

\* The references threads own or are about to own.
ThrReferences == thr.RefCount + thr.RefCountExternal

\* hip urCommandBufferRetainExp by thread t, which owns a reference; the new
\* reference goes to thread u.
Thr_HipRetain ==
    \E t \in Threads, u \in Threads :
        /\ thr.adapter = "hip"
        /\ thr.pc[t] = "idle"
        /\ thr.owned[t] > 0
        /\ ThrReferences <= MaxShared
        /\ thr' = [ThrTouch(thr) EXCEPT !.RefCount = ThrIncrement(@),
                                        !.owned[u] = @ + 1]
        /\ UNCHANGED <<hipVars, clVars, ev, ctx>>

\* hip urCommandBufferReleaseExp by thread t: the decrement.
Thr_HipRelease ==
    \E t \in Threads :
        /\ thr.adapter = "hip"
        /\ thr.pc[t] = "idle"
        /\ thr.owned[t] > 0
        /\ thr' = [ThrTouch(thr) EXCEPT
                       !.RefCount = ThrDecrement(@),
                       !.owned[t] = @ - 1,
                       !.pc[t] = ThrAfterDecrement(ThrDecrement(thr.RefCount))]
        /\ UNCHANGED <<hipVars, clVars, ev, ctx>>

\* A retain that takes the external reference before the internal one.
ThrClRetainOrder_ExternalFirst == <<"RefCountExternal", "RefCountInternal">>

\* opencl urCommandBufferRetainExp: the counters in the order in which the
\* call increments them.
ThrClRetainOrder == <<"RefCountInternal", "RefCountExternal">>

\* opencl urCommandBufferRetainExp by thread t: incrementInternalReferenceCount.
Thr_ClRetainInternal ==
    \E t \in Threads, u \in Threads :
        /\ thr.adapter = "cl"
        /\ thr.pc[t] = "idle"
        /\ thr.owned[t] > 0
        /\ ThrReferences + Cardinality({x \in Threads : thr.pc[x] = "retainExternal"})
               <= MaxShared
        /\ thr' = [ThrTouch(thr) EXCEPT ![ThrClRetainOrder[1]] = ThrIncrement(@),
                                        !.pc[t] = "retainExternal",
                                        !.for[t] = u]
        /\ UNCHANGED <<hipVars, clVars, ev, ctx>>

\* opencl urCommandBufferRetainExp: incrementExternalReferenceCount.
Thr_ClRetainExternal ==
    \E t \in Threads :
        /\ thr.pc[t] = "retainExternal"
        /\ thr' = [ThrTouch(thr) EXCEPT ![ThrClRetainOrder[2]] = ThrIncrement(@),
                                        !.owned[thr.for[t]] = @ + 1,
                                        !.for[t] = t,
                                        !.pc[t] = "idle"]
        /\ UNCHANGED <<hipVars, clVars, ev, ctx>>

\* opencl urCommandBufferReleaseExp by thread t:
\* decrementExternalReferenceCount. The buffer has no command handles, so the
\* loop over CommandHandles at zero has nothing to release.
Thr_ClReleaseExternal ==
    \E t \in Threads :
        /\ thr.adapter = "cl"
        /\ thr.pc[t] = "idle"
        /\ thr.owned[t] > 0
        /\ thr' = [ThrTouch(thr) EXCEPT !.RefCountExternal = ThrDecrement(@),
                                        !.owned[t] = @ - 1,
                                        !.pc[t] = "releaseInternal"]
        /\ UNCHANGED <<hipVars, clVars, ev, ctx>>

\* commandBufferReleaseInternal: decrementInternalReferenceCount.
Thr_ClReleaseInternal ==
    \E t \in Threads :
        /\ thr.pc[t] = "releaseInternal"
        /\ thr' = [ThrTouch(thr) EXCEPT
                       !.RefCountInternal = ThrDecrement(@),
                       !.pc[t] = ThrAfterDecrement(ThrDecrement(thr.RefCountInternal))]
        /\ UNCHANGED <<hipVars, clVars, ev, ctx>>

\* delete hCommandBuffer / delete CommandBuffer by thread t.
Thr_Delete ==
    \E t \in Threads :
        /\ thr.pc[t] = "delete"
        /\ thr' = [thr EXCEPT !.destroyed = @ + 1,
                              !.deleter = t,
                              !.pc[t] = "idle"]
        /\ UNCHANGED <<hipVars, clVars, ev, ctx>>

ThrInit == thr = ThrNone

ThrNext ==
    \/ Thr_urCommandBufferCreateExp
    \/ Thr_HipRetain
    \/ Thr_HipRelease
    \/ Thr_ClRetainInternal
    \/ Thr_ClRetainExternal
    \/ Thr_ClReleaseExternal
    \/ Thr_ClReleaseInternal
    \/ Thr_Delete

(***************************************************************************)
(* External events. The host runs one of the test programs call by call;   *)
(* the device runs the submitted operations one at a time, in any order    *)
(* the ordering rules allow. The adapter code that implements events on    *)
(* commands is not part of the sources modelled above: the rules are those *)
(* of the specification.                                                   *)
(***************************************************************************)
NoEvent == -1

\* Host calls of the test programs.
QueueFill(ptr, val, signal) ==
    [call |-> "urEnqueueUSMFill", cb |-> 0, dst |-> ptr, src |-> ptr, val |-> val,
     sync |-> {}, waits |-> {}, signal |-> signal]
QueueCopy(dst, src, waits) ==
    [call |-> "urEnqueueUSMMemcpy", cb |-> 0, dst |-> dst, src |-> src, val |-> "",
     sync |-> {}, waits |-> waits, signal |-> NoEvent]
AppendFill(cb, ptr, val, sync, waits, signal) ==
    [call |-> "urCommandBufferAppendUSMFillExp", cb |-> cb, dst |-> ptr, src |-> ptr,
     val |-> val, sync |-> sync, waits |-> waits, signal |-> signal]
AppendCopy(cb, dst, src, sync, waits, signal) ==
    [call |-> "urCommandBufferAppendUSMMemcpyExp", cb |-> cb, dst |-> dst, src |-> src,
     val |-> "", sync |-> sync, waits |-> waits, signal |-> signal]
HostCall(call, cb) ==
    [call |-> call, cb |-> cb, dst |-> "", src |-> "", val |-> "",
     sync |-> {}, waits |-> {}, signal |-> NoEvent]
UpdateWaitEvents(cb, command, waits) ==
    [HostCall("urCommandBufferUpdateWaitEventsExp", cb) EXCEPT
         !.sync = {command}, !.waits = waits]
UpdateSignalEvent(cb, command, signal) ==
    [HostCall("urCommandBufferUpdateSignalEventExp", cb) EXCEPT
         !.sync = {command}, !.signal = signal]
AssertEq(loc, val) ==
    [HostCall("ASSERT_EQ", 0) EXCEPT !.src = loc, !.val = val]

\* CommandEventSyncTest.USMMemcpyExp
Test_USMMemcpyExp ==
    << QueueFill("p0", "X", 0),
       AppendFill(1, "p1", "Y", {}, {}, NoEvent),
       AppendCopy(1, "p1", "p0", {1}, {0}, 1),
       HostCall("urCommandBufferFinalizeExp", 1),
       HostCall("urCommandBufferEnqueueExp", 1),
       QueueCopy("h0", "p1", {1}),
       HostCall("urQueueFinish", 0),
       AssertEq("h0", "X") >>

\* The three fills of MultipleEventCommands, chained through events 0 and 1.
Test_ChainedFills ==
    << AppendFill(1, "p0", "A", {}, {}, 0),
       AppendFill(1, "p1", "B", {}, {0}, 1),
       AppendFill(1, "p2", "C", {}, {1}, 2),
       HostCall("urCommandBufferFinalizeExp", 1) >>
Test_ExpectABC ==
    << HostCall("urQueueFinish", 0),
       AssertEq("h0", "A"), AssertEq("h1", "B"), AssertEq("h2", "C") >>

\* CommandEventSyncTest.MultipleEventCommands
Test_MultipleEventCommands ==
    Test_ChainedFills \o
    << HostCall("urCommandBufferEnqueueExp", 1),
       QueueCopy("h0", "p0", {0}),
       QueueCopy("h1", "p1", {1}),
       QueueCopy("h2", "p2", {2}) >> \o
    Test_ExpectABC

\* CommandEventSyncTest.MultipleEventCommandsBetweenCommandBuffers
Test_MultipleEventCommandsBetweenCommandBuffers ==
    Test_ChainedFills \o
    << AppendCopy(2, "h0", "p0", {}, {0}, NoEvent),
       AppendCopy(2, "h1", "p1", {}, {1}, NoEvent),
       AppendCopy(2, "h2", "p2", {}, {2}, NoEvent),
       HostCall("urCommandBufferFinalizeExp", 2),
       HostCall("urCommandBufferEnqueueExp", 1),
       HostCall("urCommandBufferEnqueueExp", 2) >> \o
    Test_ExpectABC

\* CommandEventSyncUpdateTest.USMMemcpyExp
Test_UpdateUSMMemcpyExp ==
    Test_USMMemcpyExp \o
    << QueueFill("p0", "Z", 2),
       UpdateWaitEvents(1, 2, {2}),
       UpdateSignalEvent(1, 2, 3),
       HostCall("urCommandBufferEnqueueExp", 1),
       QueueCopy("h0", "p1", {3}),
       HostCall("urQueueFinish", 0),
       AssertEq("h0", "Z") >>

EvScenarios ==
    {"USMMemcpyExp", "MultipleEventCommands",
     "MultipleEventCommandsBetweenCommandBuffers", "UpdateUSMMemcpyExp"}
EvProgram(scenario) ==
    CASE scenario = "USMMemcpyExp" -> Test_USMMemcpyExp
      [] scenario = "MultipleEventCommands" -> Test_MultipleEventCommands
      [] scenario = "MultipleEventCommandsBetweenCommandBuffers" ->
             Test_MultipleEventCommandsBetweenCommandBuffers
      [] scenario = "UpdateUSMMemcpyExp" -> Test_UpdateUSMMemcpyExp
      [] OTHER -> <<>>

EvLocations == {"p0", "p1", "p2", "h0", "h1", "h2"}
EvBuffers == {1, 2}

\* A command buffer of the test fixture: created updatable, recording.
EvNewBuffer ==
    [commands |-> <<>>, IsFinalized |-> FALSE, IsUpdatable |-> TRUE, finalizes |-> 0]

EvNone ==
    [scenario |-> "none", inOrder |-> TRUE, pc |-> 1,
     buffers |-> [b \in EvBuffers |-> EvNewBuffer],
     pending |-> {}, submissions |-> 0, signalled |-> {},
     mem |-> [l \in EvLocations |-> "-"],
     log |-> <<>>, results |-> <<>>, failed |-> FALSE]

\* The operation a submission hands to the device: the call or recorded
\* command c, as submission n of the queue; command is its index in its
\* command buffer (0 for a queue operation).
EvOperation(c, n, command) ==
    [submission |-> n, cb |-> c.cb, command |-> command,
     fill |-> c.call \in {"urEnqueueUSMFill", "urCommandBufferAppendUSMFillExp"},
     dst |-> c.dst, src |-> c.src, val |-> c.val,
     sync |-> c.sync, waits |-> c.waits, signal |-> c.signal]

\* A device that starts an operation without looking at its wait events.
EvReady_IgnoresEvents(E, o) ==
    /\ \A q \in E.pending :
           (q.submission = o.submission /\ q.command \in o.sync) => FALSE
    /\ E.inOrder => \A q \in E.pending : q.submission >= o.submission

\* The device may run operation o: every event it waits on is signalled,
\* every command of its sync-point wait list has run in this enqueue, and on
\* an in-order queue every earlier submission has completed.
EvReady(E, o) ==
    /\ o.waits \subseteq E.signalled
    /\ \A q \in E.pending :
           (q.submission = o.submission /\ q.command \in o.sync) => FALSE
    /\ E.inOrder => \A q \in E.pending : q.submission >= o.submission

\* The device runs o: the fill or copy, then the signal of its event. The
\* log keeps the wait events that were not signalled when o ran.
EvExecute(E, o) ==
    [E EXCEPT !.pending = @ \ {o},
              !.mem[o.dst] = IF o.fill THEN o.val ELSE E.mem[o.src],
              !.signalled = IF o.signal = NoEvent THEN @ ELSE @ \cup {o.signal},
              !.log = Append(@, [cb |-> o.cb, command |-> o.command,
                                 submission |-> o.submission,
                                 waits |-> o.waits, signal |-> o.signal,
                                 early |-> o.waits \ E.signalled])]

\* The signal events of the commands of buffer b.
EvSignalEvents(E, b) ==
    {E.buffers[b].commands[i].signal : i \in DOMAIN E.buffers[b].commands} \ {NoEvent}

\* An update that adds the new events to the command's wait list.
EvUpdateWaitEvents_Adds(E, c) ==
    LET b == E.buffers[c.cb]
        h == CHOOSE x \in c.sync : TRUE
    IN  IF ~b.IsFinalized \/ ~b.IsUpdatable
        THEN [E EXCEPT !.results = Append(@, "INVALID_OPERATION")]
        ELSE [E EXCEPT !.buffers[c.cb].commands[h].waits = @ \cup c.waits,
                       !.results = Append(@, "SUCCESS")]

\* urCommandBufferUpdateWaitEventsExp on command h of an updatable, finalized
\* buffer: the new list replaces the command's wait events.
EvUpdateWaitEvents(E, c) ==
    LET b == E.buffers[c.cb]
        h == CHOOSE x \in c.sync : TRUE
    IN  IF ~b.IsFinalized \/ ~b.IsUpdatable
        THEN [E EXCEPT !.results = Append(@, "INVALID_OPERATION")]
        ELSE [E EXCEPT !.buffers[c.cb].commands[h].waits = c.waits,
                       !.results = Append(@, "SUCCESS")]

\* urCommandBufferUpdateSignalEventExp: the command signals a new event,
\* which is returned.
EvUpdateSignalEvent(E, c) ==
    LET b == E.buffers[c.cb]
        h == CHOOSE x \in c.sync : TRUE
    IN  IF ~b.IsFinalized \/ ~b.IsUpdatable
        THEN [E EXCEPT !.results = Append(@, "INVALID_OPERATION")]
        ELSE [E EXCEPT !.buffers[c.cb].commands[h].signal = c.signal,
                       !.results = Append(@, "SUCCESS")]

\* The host call c of the program, as the documented interface answers it.
EvHostCall(E, c) ==
    LET n == E.submissions + 1
    IN  CASE c.call \in {"urEnqueueUSMFill", "urEnqueueUSMMemcpy"} ->
                 [E EXCEPT !.pending = @ \cup {EvOperation(c, n, 0)},
                           !.submissions = n,
                           !.results = Append(@, "SUCCESS")]
          [] c.call \in {"urCommandBufferAppendUSMFillExp",
                         "urCommandBufferAppendUSMMemcpyExp"} ->
                 IF E.buffers[c.cb].IsFinalized
                 THEN [E EXCEPT !.results = Append(@, "INVALID_OPERATION")]
                 ELSE [E EXCEPT !.buffers[c.cb].commands = Append(@, c),
                                !.results = Append(@, "SUCCESS")]
          [] c.call = "urCommandBufferFinalizeExp" ->
                 IF E.buffers[c.cb].IsFinalized
                 THEN [E EXCEPT !.results = Append(@, "INVALID_OPERATION")]
                 ELSE [E EXCEPT !.buffers[c.cb].IsFinalized = TRUE,
                                !.buffers[c.cb].finalizes = @ + 1,
                                !.results = Append(@, "SUCCESS")]
          [] c.call = "urCommandBufferEnqueueExp" ->
                 IF ~E.buffers[c.cb].IsFinalized
                 THEN [E EXCEPT !.results = Append(@, "INVALID_OPERATION")]
                 ELSE [E EXCEPT
                          !.pending = @ \cup
                              {EvOperation(E.buffers[c.cb].commands[i], n, i) :
                                   i \in DOMAIN E.buffers[c.cb].commands},
                          !.signalled = @ \ EvSignalEvents(E, c.cb),
                          !.submissions = n,
                          !.results = Append(@, "SUCCESS")]
          [] c.call = "urCommandBufferUpdateWaitEventsExp" -> EvUpdateWaitEvents(E, c)
          [] c.call = "urCommandBufferUpdateSignalEventExp" -> EvUpdateSignalEvent(E, c)
          [] c.call = "urQueueFinish" -> [E EXCEPT !.results = Append(@, "SUCCESS")]
          [] OTHER -> [E EXCEPT !.failed = @ \/ E.mem[c.src] # c.val,
                                !.results = Append(@, "SUCCESS")]

\* No call has been made on the command buffers of the other parts.
EvAlone ==
    /\ hip.phase = "none"
    /\ hipLast.op = "none"
    /\ clLast.op = "none"
    /\ thr.adapter = "none"
    /\ ctx.part = "none"

\* A test starts, on an in-order or an out-of-order queue.
Ev_SetUp ==
    \E scenario \in EvScenarios, inOrder \in BOOLEAN :
        /\ EvAlone
        /\ ev.scenario = "none"
        /\ ev' = [ev EXCEPT !.scenario = scenario, !.inOrder = inOrder]
        /\ UNCHANGED <<hipVars, clVars, thr, ctx>>

\* The host makes the next call of the test; urQueueFinish returns when the
\* device has run everything submitted.
Ev_Host ==
    /\ ev.scenario # "none"
    /\ ev.pc <= Len(EvProgram(ev.scenario))
    /\ LET c == EvProgram(ev.scenario)[ev.pc]
       IN  /\ c.call = "urQueueFinish" => ev.pending = {}
           /\ ev' = [EvHostCall(ev, c) EXCEPT !.pc = @ + 1]
    /\ UNCHANGED <<hipVars, clVars, thr, ctx>>

\* The device runs one operation that is ready.
Ev_Device ==
    \E o \in ev.pending :
        /\ EvReady(ev, o)
        /\ ev' = EvExecute(ev, o)
        /\ UNCHANGED <<hipVars, clVars, thr, ctx>>

EvInit == ev = EvNone

EvNext ==
    \/ Ev_SetUp
    \/ Ev_Host
    \/ Ev_Device

(***************************************************************************)
(* HIP contexts (context.hpp). One thread constructs and destroys          *)
(* ScopedContext guards, one at a time, which set and restore the thread's *)
(* active native context. Several threads call setExtendedDeleter and      *)
(* invokeExtendedDeleters on one ur_context_handle_t_; a call is a         *)
(* sequence of steps, and the steps of different threads interleave.       *)
(***************************************************************************)
NullCtx == 0            \* hipCtx_t nullptr; as a device handle, the null handle
Devices == {1, 2}       \* device d's native context (getNativeContext()) is d

\* No ScopedContext is alive.
CtxNoGuard ==
    [alive |-> FALSE, device |-> NullCtx, Original |-> NullCtx,
     NeedToRecover |-> FALSE]

\* The thread and the context object before any call. active is the thread's
\* active native context and entry the one it had when the last guard was
\* constructed; Mutex is the thread that holds the context's mutex (0: free);
\* end[t] and it[t] are thread t's position in emplace_back and in the loop
\* over the deleters; registered lists the deleters in the order in which
\* they were added, seen is the list as the invoking thread found it when it
\* took the mutex, invoked the deleters it has called.
CtxNone ==
    [part |-> "none", active |-> NullCtx, entry |-> NullCtx, guard |-> CtxNoGuard,
     op |-> "none", result |-> "SUCCESS", device |-> NullCtx, before |-> NullCtx,
     Mutex |-> 0, ExtendedDeleters |-> <<>>,
     pc |-> [t \in Threads |-> "idle"], end |-> [t \in Threads |-> 0],
     it |-> [t \in Threads |-> 0], registered |-> <<>>, seen |-> <<>>,
     invoked |-> <<>>, invoker |-> 0]

\* No call has been made on the objects of the other parts.
CtxAlone ==
    /\ hip.phase = "none"
    /\ hipLast.op = "none"
    /\ clLast.op = "none"
    /\ thr.adapter = "none"
    /\ ev.scenario = "none"

\* ScopedContext(hDevice) on a thread whose active context is active.
\* getCurrent and setCurrent are the results of hipCtxGetCurrent and
\* hipCtxSetCurrent; UR_CHECK_ERROR throws on an error, and so does a null
\* device: no guard is then constructed.
ScopedContext(active, hDevice, getCurrent, setCurrent) ==
    IF hDevice = NullCtx
    THEN [Result |-> "INVALID_DEVICE", active |-> active, guard |-> CtxNoGuard]
    ELSE IF getCurrent # "SUCCESS"
    THEN [Result |-> getCurrent, active |-> active, guard |-> CtxNoGuard]
    ELSE LET Desired == hDevice
             Original == active
         IN  IF Original # Desired
             THEN IF setCurrent # "SUCCESS"
                  THEN [Result |-> setCurrent, active |-> active,
                        guard |-> CtxNoGuard]
                  ELSE [Result |-> "SUCCESS", active |-> Desired,
                        guard |-> [alive |-> TRUE, device |-> hDevice,
                                   Original |-> Original,
                                   NeedToRecover |-> Original # NullCtx]]
             ELSE [Result |-> "SUCCESS", active |-> active,
                   guard |-> [alive |-> TRUE, device |-> hDevice,
                              Original |-> Original, NeedToRecover |-> FALSE]]

\* A destructor that leaves the active context as it is.
ScopedContextDestructor_NoRestore(active, guard, setCurrent) ==
    [Result |-> "SUCCESS", active |-> active]

\* ~ScopedContext(). An exception that leaves the destructor ends the
\* process (std::terminate).
ScopedContextDestructor(active, guard, setCurrent) ==
    IF guard.NeedToRecover
    THEN IF setCurrent # "SUCCESS"
         THEN [Result |-> "SIGABRT", active |-> active]
         ELSE [Result |-> "SUCCESS", active |-> guard.Original]
    ELSE [Result |-> "SUCCESS", active |-> active]

\* The thread runs on: no guard's destructor has ended the process.
CtxScoped ==
    /\ CtxAlone
    /\ ctx.part \in {"none", "scoped"}
    /\ ctx.result # "SIGABRT"

\* Code outside the adapter (the HIP runtime API, the application) makes c
\* the thread's active context while no guard is alive.
Ctx_hipCtxSetCurrent ==
    \E c \in {NullCtx} \cup Devices :
        /\ CtxScoped
        /\ ~ctx.guard.alive
        /\ c # ctx.active
        /\ ctx' = [ctx EXCEPT !.part = "scoped", !.active = c,
                              !.op = "hipCtxSetCurrent", !.result = "SUCCESS",
                              !.device = NullCtx, !.before = ctx.active]
        /\ UNCHANGED <<hipVars, clVars, thr, ev>>

\* ScopedContext Active(hDevice);
Ctx_ScopedContext ==
    \E hDevice \in {NullCtx} \cup Devices,
       getCurrent \in NativeResults, setCurrent \in NativeResults :
        LET O == ScopedContext(ctx.active, hDevice, getCurrent, setCurrent)
        IN  /\ CtxScoped
            /\ ~ctx.guard.alive
            /\ getCurrent = "SUCCESS" \/ setCurrent = "SUCCESS"
            /\ ctx' = [ctx EXCEPT !.part = "scoped", !.active = O.active,
                                  !.guard = O.guard, !.entry = ctx.active,
                                  !.op = "ScopedContext", !.result = O.Result,
                                  !.device = hDevice, !.before = ctx.active]
            /\ UNCHANGED <<hipVars, clVars, thr, ev>>

\* The guard goes out of scope.
Ctx_ScopedContextDestructor ==
    \E setCurrent \in NativeResults :
        LET O == ScopedContextDestructor(ctx.active, ctx.guard, setCurrent)
        IN  /\ CtxScoped
            /\ ctx.guard.alive
            /\ ctx' = [ctx EXCEPT !.active = O.active, !.guard = CtxNoGuard,
                                  !.op = "~ScopedContext", !.result = O.Result,
                                  !.device = ctx.guard.device,
                                  !.before = ctx.active]
            /\ UNCHANGED <<hipVars, clVars, thr, ev>>

\* The threads call into the context object.
CtxShared ==
    /\ CtxAlone
    /\ ctx.part \in {"none", "deleters"}

\* A lock that never waits.
CtxMutexFree_Always(C) == TRUE

\* std::lock_guard<std::mutex> Guard(Mutex) can be constructed: no thread
\* holds the mutex.
CtxMutexFree(C) == C.Mutex = 0

\* setExtendedDeleter by thread t: the lock is taken.
Ctx_setExtendedDeleter ==
    \E t \in Threads :
        /\ CtxShared
        /\ ctx.pc[t] = "idle"
        /\ CtxMutexFree(ctx)
        /\ ctx' = [ctx EXCEPT !.part = "deleters", !.Mutex = t,
                              !.pc[t] = "emplace_back"]
        /\ UNCHANGED <<hipVars, clVars, thr, ev>>

\* ExtendedDeleters.emplace_back: the end of the vector is read.
Ctx_emplace_back ==
    \E t \in Threads :
        /\ ctx.pc[t] = "emplace_back"
        /\ ctx' = [ctx EXCEPT !.end[t] = Len(ctx.ExtendedDeleters),
                              !.pc[t] = "construct"]
        /\ UNCHANGED <<hipVars, clVars, thr, ev>>

\* ExtendedDeleters.emplace_back: the deleter of thread t is constructed at
\* the end that was read, which becomes the vector's last element.
Ctx_construct ==
    \E t \in Threads :
        /\ ctx.pc[t] = "construct"
        /\ ctx' = [ctx EXCEPT
                       !.ExtendedDeleters =
                           [i \in 1 .. (ctx.end[t] + 1) |->
                                IF i <= ctx.end[t] /\ i <= Len(@) THEN @[i] ELSE t],
                       !.registered = Append(@, t),
                       !.pc[t] = "unlock"]
        /\ UNCHANGED <<hipVars, clVars, thr, ev>>

\* The lock_guard of a call is destroyed and the call returns.
Ctx_unlock ==
    \E t \in Threads :
        /\ ctx.pc[t] = "unlock"
        /\ ctx' = [ctx EXCEPT !.Mutex = 0, !.pc[t] = "done"]
        /\ UNCHANGED <<hipVars, clVars, thr, ev>>

\* invokeExtendedDeleters by thread t: the lock is taken and the loop starts.
Ctx_invokeExtendedDeleters ==
    \E t \in Threads :
        /\ CtxShared
        /\ ctx.pc[t] = "idle"
        /\ ctx.invoker = 0
        /\ CtxMutexFree(ctx)
        /\ ctx' = [ctx EXCEPT !.part = "deleters", !.Mutex = t, !.invoker = t,
                              !.pc[t] = "for", !.it[t] = 1,
                              !.seen = ctx.ExtendedDeleters]
        /\ UNCHANGED <<hipVars, clVars, thr, ev>>

\* for (auto &Deleter : ExtendedDeleters) Deleter(); one deleter is called,
\* or the end is reached.
Ctx_Deleter ==
    \E t \in Threads :
        /\ ctx.pc[t] = "for"
        /\ IF ctx.it[t] <= Len(ctx.ExtendedDeleters)
           THEN ctx' = [ctx EXCEPT
                            !.invoked = Append(@, ctx.ExtendedDeleters[ctx.it[t]]),
                            !.it[t] = @ + 1]
           ELSE ctx' = [ctx EXCEPT !.pc[t] = "unlock"]
        /\ UNCHANGED <<hipVars, clVars, thr, ev>>

CtxInit == ctx = CtxNone

CtxNext ==
    \/ Ctx_hipCtxSetCurrent
    \/ Ctx_ScopedContext
    \/ Ctx_ScopedContextDestructor
    \/ Ctx_setExtendedDeleter
    \/ Ctx_emplace_back
    \/ Ctx_construct
    \/ Ctx_unlock
    \/ Ctx_invokeExtendedDeleters
    \/ Ctx_Deleter

Init == HipInit /\ ClInit /\ ThrInit /\ EvInit /\ CtxInit

\* A process drives the command buffer of one adapter: the calls of an
\* adapter are enabled while no call of the other one has been made.
Next == HipNext \/ ClNext \/ ThrNext \/ EvNext \/ CtxNext

\* The command buffer of either adapter under every sequence of calls.
Spec == Init /\ [][Next]_vars

\* The HIP command buffer under every sequence of calls.
SpecHip == Init /\ [][HipNext]_vars

\* The OpenCL command buffer and its command handles under every sequence of
\* calls by a caller that uses only references it holds.
SpecCL == Init /\ [][ClNext]_vars

\* One command buffer retained and released by several threads.
SpecThreads == Init /\ [][ThrNext]_vars

\* The guards of one thread, and the deleters of one context.
SpecContext == Init /\ [][CtxNext]_vars

\* The event tests, each under every order in which the device may run the
\* submitted operations.
SpecEvents == Init /\ [][EvNext]_vars

(***************************************************************************)
(* HIP adapter: properties                                                 *)
(***************************************************************************)
HipAppended == hipLast.op \in HipAppendOps
HipReturned == hipLast.result # "SIGFPE"
HipBufferUnchanged ==
    /\ Len(hip.HIPGraph) = hipLast.nodesBefore
    /\ hip.NextSyncPoint = hipLast.nextBefore
    /\ Len(hip.SyncPoints) = hipLast.nextBefore

\* The wait list of the last call names a sync point that the buffer's
\* registry did not hold when the call was made.
HipWaitListHadUnknown ==
    \E i \in DOMAIN hipLast.wl : ~(hipLast.wl[i] < hipLast.nextBefore)

\* C1: an append call made after finalize has succeeded returns
\* invalid-operation and leaves the number of native graph nodes and the
\* sync-point registry unchanged.
C1_AppendAfterFinalizeRejected ==
    (HipAppended /\ HipReturned /\ hipLast.execBefore # NullExec)
        => (hipLast.result = "INVALID_OPERATION" /\ HipBufferUnchanged)

\* C2: urCommandBufferEnqueueExp called before the buffer has been
\* successfully finalized returns invalid-operation and launches nothing.
C2_EnqueueBeforeFinalizeRejected ==
    (hipLast.op = "Enqueue" /\ hipLast.execBefore = NullExec)
        => (hipLast.result = "INVALID_OPERATION" /\ ~hipLast.launched)

HipResultsBesideInvalidValue(op) ==
    CASE op = "AppendKernelLaunch" -> {"INVALID_KERNEL", "INVALID_WORK_DIMENSION"}
      [] op = "AppendMemBufferCopy" -> {"INVALID_SIZE"}
      [] op \in {"AppendMemBufferFill", "AppendUSMFill"} ->
             {"INVALID_SIZE"} \cup NativeFaults
      [] OTHER -> {}

HipUsageErrors ==
    {"INVALID_VALUE", "INVALID_SIZE", "INVALID_KERNEL", "INVALID_WORK_DIMENSION",
     "INVALID_WORK_GROUP_SIZE", "INVALID_OPERATION"}

\* C4: an append call that returns a usage-error result leaves the command
\* buffer unchanged: no native graph node is added, no sync point is
\* registered and the caller's sync-point output is not written.
C4_UsageErrorLeavesBufferUnchanged ==
    (HipAppended /\ hipLast.result \in HipUsageErrors)
        => (HipBufferUnchanged /\ hipLast.syncPoint = NoSyncPoint)

HipSucceeded == hipLast.result \in {"SUCCESS", "ADAPTER_SPECIFIC"}

\* C5: when an append succeeds with wait list [s1..sn], the first native node
\* it inserts has as predecessors exactly the nodes that the buffer's registry
\* maps s1..sn to, and each of them was inserted before it.
C5_PredecessorsAreRegistryImages ==
    (HipAppended /\ HipSucceeded)
        => /\ Len(hip.HIPGraph) > hipLast.nodesBefore
           /\ ~HipWaitListHadUnknown
           /\ LET first == hipLast.nodesBefore + 1
                  deps == hip.HIPGraph[first].deps
              IN  /\ deps = [i \in DOMAIN hipLast.wl |->
                                 SyncPointNode(hip, hipLast.wl[i])]
                  /\ \A i \in DOMAIN deps : deps[i] < first

\* A command was recorded with a wait on two earlier commands' sync points.
C5_Witness ==
    /\ HipAppended /\ HipSucceeded
    /\ Len(hipLast.wl) = 2
    /\ hip.HIPGraph[hipLast.nodesBefore + 1].deps =
           <<SyncPointNode(hip, hipLast.wl[1]), SyncPointNode(hip, hipLast.wl[2])>>

(***************************************************************************)
(* OpenCL adapter: properties                                              *)
(***************************************************************************)
ClReleased == clLast.op \in {"Release", "ReleaseCommand"}

\* The internal releases of the last call that were made on the buffer on
\* behalf of command handle h.
ClParentReleases(h) ==
    SelectSeq(clLast.trace, LAMBDA e : e = <<"parent", h>>)
\* The calls of commandHandleReleaseInternal of the last call, in order.
ClCommandReleases ==
    SelectSeq(clLast.trace, LAMBDA e : e[1] = "command")

\* C6: a command buffer is destroyed only at the step that brings its
\* internal reference count to zero, and once; a buffer stays alive as long as
\* a command handle that the caller holds a reference to is alive.
C6_BufferDestroyedOnlyAtInternalZero ==
    /\ cl.destroyed > clLast.before.cl.destroyed
           => /\ clLast.before.cl.RefCountInternal > 0
              /\ cl.RefCountInternal = 0
              /\ cl.destroyed = 1
    /\ cl.RefCountInternal > 0 => cl.alive
    /\ (\E h \in DOMAIN clCmd : clCmd[h].alive /\ clHeld.cmd[h] > 0) => cl.alive

\* C7: when a call of urCommandBufferReleaseExp that returns brings the
\* external count to zero, every command handle registered in the buffer
\* receives exactly one internal release, in the order of the list, and the
\* buffer's own internal release comes after all of them; a release that
\* leaves the external count above zero touches no command handle and
\* performs only the buffer's own internal release.
C7_ReleaseCascadesThenReleasesBuffer ==
    (clLast.op = "Release" /\ clLast.result = "SUCCESS")
        => IF clLast.before.cl.RefCountExternal = 1
           THEN /\ ClCommandReleases =
                       [i \in DOMAIN clLast.before.cl.CommandHandles |->
                            <<"command", clLast.before.cl.CommandHandles[i]>>]
                /\ clLast.trace # <<>>
                /\ clLast.trace[Len(clLast.trace)] = <<"own", 0>>
                /\ Len(SelectSeq(clLast.trace, LAMBDA e : e = <<"own", 0>>)) = 1
           ELSE /\ clLast.trace = << <<"own", 0>> >>
                /\ clCmd = clLast.before.clCmd

\* The last release of a buffer with two registered command handles, one of
\* which the caller had retained and which outlives the cascade.
C7_Witness ==
    /\ clLast.op = "Release" /\ clLast.result = "SUCCESS"
    /\ clLast.before.cl.RefCountExternal = 1
    /\ Len(clLast.before.cl.CommandHandles) = 2
    /\ Len(ClCommandReleases) = 2
    /\ \E h \in DOMAIN clCmd : clCmd[h].alive
    /\ \E h \in DOMAIN clCmd : clLast.before.clCmd[h].alive /\ ~clCmd[h].alive

\* C8: when the caller has released each command handle and then releases the
\* buffer, the release returns success, each handle and the buffer are
\* destroyed exactly once, and no destroyed object is used.
C8_ReleaseHandlesThenBufferIsSafe ==
    (/\ clLast.op = "Release"
     /\ clLast.before.cl.RefCountExternal = 1
     /\ clCmd # <<>>
     /\ \A h \in DOMAIN clCmd : clHeld.cmd[h] = 0)
        => /\ clLast.result = "SUCCESS"
           /\ ~clLast.stale
           /\ cl.destroyed = 1
           /\ \A h \in DOMAIN clCmd : clCmd[h].destroyed = 1

\* C9: in a release, a command handle whose internal count reaches zero is
\* destroyed and its parent buffer's internal count is decremented exactly
\* once on its behalf; a handle whose internal count stays above zero causes
\* no release of the parent, and urCommandBufferReleaseCommandExp on such a
\* handle changes neither of the parent buffer's counts.
C9_HandleAtZeroReleasesParentOnce ==
    ClReleased =>
        \A h \in DOMAIN clCmd :
            clLast.before.clCmd[h].alive =>
                IF clCmd[h].RefCountInternal = 0
                THEN /\ ~clCmd[h].alive
                     /\ clCmd[h].destroyed = 1
                     /\ Len(ClParentReleases(h)) = 1
                ELSE /\ clCmd[h].alive
                     /\ ClParentReleases(h) = <<>>
                     /\ (clLast.op = "ReleaseCommand" /\ clLast.h = h)
                            => /\ cl.RefCountInternal = clLast.before.cl.RefCountInternal
                               /\ cl.RefCountExternal = clLast.before.cl.RefCountExternal

\* urCommandBufferReleaseCommandExp brought a handle to zero: the handle was
\* destroyed and the buffer, still alive, lost one internal reference.
C9_Witness ==
    /\ clLast.op = "ReleaseCommand"
    /\ clLast.before.clCmd[clLast.h].alive
    /\ ~clCmd[clLast.h].alive
    /\ cl.alive
    /\ cl.RefCountInternal = clLast.before.cl.RefCountInternal - 1
    /\ \E g \in DOMAIN clCmd : g # clLast.h /\ clCmd[g].alive

\* C10: an append constructs and returns a command handle only when the
\* caller requested one and the buffer is update-capable; when it does, the
\* handle is appended to the buffer's command list and the buffer's internal
\* reference count increases by exactly one; on an updatable buffer a
\* requested handle is returned.
C10_HandleOnlyWhenRequestedAndUpdatable ==
    clLast.op = "AppendKernelLaunch"
        => /\ Len(clCmd) > Len(clLast.before.clCmd)
                  => /\ clLast.wantHandle /\ clLast.before.cl.IsUpdatable
                     /\ clLast.handle = Len(clCmd)
                     /\ cl.CommandHandles =
                            Append(clLast.before.cl.CommandHandles, clLast.handle)
                     /\ cl.RefCountInternal = clLast.before.cl.RefCountInternal + 1
           /\ Len(clCmd) = Len(clLast.before.clCmd)
                  => /\ clLast.handle = 0
                     /\ cl.CommandHandles = clLast.before.cl.CommandHandles
                     /\ cl.RefCountInternal = clLast.before.cl.RefCountInternal
           /\ (clLast.result = "SUCCESS" /\ clLast.wantHandle
               /\ clLast.before.cl.IsUpdatable) => clLast.handle # 0

\* C11: get-info REFERENCE_COUNT on a buffer the caller created, after k
\* retains and j <= k releases (the caller then holds 1 + k - j references),
\* succeeds and reports 1 + k - j; every retain returns success.
C11_GetInfoReportsExternalCount ==
    /\ clLast.op = "GetInfo"
           => /\ clLast.result = "SUCCESS" => clLast.value = clHeld.buf
              /\ (clLast.result = "SUCCESS") = (clLast.value > 0)
    /\ clLast.op = "Retain"
           => /\ clLast.result = "SUCCESS"
              /\ cl.RefCountExternal = clLast.before.cl.RefCountExternal + 1

\* The count was read after a retain: it is 2.
C11_Witness ==
    clLast.op = "GetInfo" /\ clLast.result = "SUCCESS" /\ clLast.value = 2

\* C12: a create call that requests isUpdatable on a device that does not
\* report update support returns invalid-operation and yields no command
\* buffer, on the HIP and on the OpenCL back end.
C12_UpdatableOnUnsupportedDeviceRejected ==
    /\ (hipLast.op = "Create" /\ hipLast.isUpdatable /\ ~hipLast.DeviceSupportsUpdate)
           => /\ hipLast.result = "INVALID_OPERATION"
              /\ hip.phase = "none" /\ ~hipLast.handleOut
    /\ (clLast.op = "Create" /\ clLast.isUpdatable /\ ~clLast.DeviceSupportsUpdate)
           => /\ clLast.result = "INVALID_OPERATION"
              /\ ~cl.alive

C15_OneSyncPointPerAppend ==
    (HipAppended /\ HipSucceeded)
        => /\ Len(hip.HIPGraph) > hipLast.nodesBefore
           /\ hip.NextSyncPoint = hipLast.nextBefore + 1
           /\ Len(hip.SyncPoints) = hipLast.nextBefore + 1
           /\ hipLast.syncPoint = hipLast.nextBefore
           /\ SyncPointKnown(hip, hipLast.syncPoint)
           /\ SyncPointNode(hip, hipLast.syncPoint) = Len(hip.HIPGraph)

\* C16: in every reachable state the dependency graph recorded in a command
\* buffer is acyclic: every predecessor of a node is a node of the same buffer
\* that was inserted strictly earlier.
C16_GraphIsDAG ==
    \A n \in DOMAIN hip.HIPGraph :
        \A i \in DOMAIN hip.HIPGraph[n].deps :
            hip.HIPGraph[n].deps[i] \in 1 .. (n - 1)

\* The graph holds a node with two predecessors and the call that added it
\* waited on the newest sync point.
C16_Witness ==
    /\ HipAppended /\ HipSucceeded
    /\ Len(hip.HIPGraph[Len(hip.HIPGraph)].deps) = 2
    /\ \E i \in DOMAIN hipLast.wl : hipLast.wl[i] = hipLast.nextBefore - 1

HipFilled == hipLast.op \in {"AppendMemBufferFill", "AppendUSMFill"}
IsPowerOfTwo(n) == \E k \in 0 .. WordMod : n = 2 ^ k

\* C17: a fill append called with a null pattern, or with a pattern size that
\* is not a positive power of two, returns invalid-size, adds no node and mints
\* no sync point.
C17_InvalidPatternRejected ==
    (HipFilled /\ (hipLast.args.patternNull \/ ~IsPowerOfTwo(hipLast.args.patternSize)))
        => /\ hipLast.result = "INVALID_SIZE"
           /\ HipBufferUnchanged
           /\ hipLast.syncPoint = NoSyncPoint

\* C18: a kernel-launch append rejects a kernel of another context with
\* invalid-kernel and a work dimension outside 1..3 with
\* invalid-work-dimension (the context is checked first); either way no node
\* is added and no sync point is minted.
C18_KernelLaunchArgumentsChecked ==
    hipLast.op = "AppendKernelLaunch"
        => /\ ~hipLast.args.ctxOk => hipLast.result = "INVALID_KERNEL"
           /\ (hipLast.args.ctxOk /\ hipLast.args.workDim \notin 1 .. 3)
                  => hipLast.result = "INVALID_WORK_DIMENSION"
           /\ (~hipLast.args.ctxOk \/ hipLast.args.workDim \notin 1 .. 3)
                  => /\ HipBufferUnchanged
                     /\ hipLast.syncPoint = NoSyncPoint

\* A launch with four work dimensions was rejected on a buffer that holds a
\* node.
C18_Witness ==
    /\ hipLast.op = "AppendKernelLaunch"
    /\ hipLast.args.ctxOk /\ hipLast.args.workDim = 4
    /\ hipLast.result = "INVALID_WORK_DIMENSION"
    /\ hipLast.nodesBefore > 0

\* C19: a buffer-copy append returns invalid-size and adds no node whenever
\* srcOffset + size or dstOffset + size, as unbounded integers, exceeds the
\* size of the allocation.
C19_CopyOutOfBoundsRejected ==
    (/\ hipLast.op = "AppendMemBufferCopy"
     /\ \/ hipLast.args.srcOffset + hipLast.args.size > MemSize
        \/ hipLast.args.dstOffset + hipLast.args.size > MemSize)
        => /\ hipLast.result = "INVALID_SIZE"
           /\ HipBufferUnchanged

HipHinted == hipLast.op \in {"AppendUSMPrefetch", "AppendUSMAdvise"}

\* C20: on HIP a prefetch or advise append whose wait list resolves returns
\* the adapter-specific warning, never success or unsupported-feature, unless
\* the native insertion fails (its error is then returned and the buffer is
\* unchanged); with the warning exactly one empty node was inserted, its
\* predecessors are the nodes of the wait list, and a new sync point, known to
\* the registry, is bound to it and returned.
C20_HintBecomesEmptyNode ==
    (HipHinted /\ ~HipWaitListHadUnknown)
        => /\ hipLast.result \in {"ADAPTER_SPECIFIC"} \cup NativeFaults
           /\ hipLast.result # "ADAPTER_SPECIFIC"
                  => HipBufferUnchanged /\ hipLast.syncPoint = NoSyncPoint
           /\ hipLast.result = "ADAPTER_SPECIFIC"
                  => /\ Len(hip.HIPGraph) = hipLast.nodesBefore + 1
                     /\ hip.HIPGraph[Len(hip.HIPGraph)].kind = "empty"
                     /\ hip.HIPGraph[Len(hip.HIPGraph)].deps =
                            [i \in DOMAIN hipLast.wl |->
                                 SyncPointNode(hip, hipLast.wl[i])]
                     /\ hip.NextSyncPoint = hipLast.nextBefore + 1
                     /\ hipLast.syncPoint = hipLast.nextBefore
                     /\ SyncPointKnown(hip, hipLast.syncPoint)
                     /\ SyncPointNode(hip, hipLast.syncPoint) = Len(hip.HIPGraph)

\* A prefetch or advise was recorded behind two earlier commands.
C20_Witness ==
    /\ HipHinted /\ hipLast.result = "ADAPTER_SPECIFIC"
    /\ Len(hipLast.wl) = 2
    /\ hip.HIPGraph[Len(hip.HIPGraph)].deps = <<1, 2>>

ClUnimplementedAppends ==
    {"AppendUSMMemcpy", "AppendUSMFill", "AppendMemBufferWrite",
     "AppendMemBufferRead", "AppendMemBufferWriteRect",
     "AppendMemBufferReadRect", "AppendUSMPrefetch", "AppendUSMAdvise"}

\* C21: on OpenCL every append operation the adapter does not implement
\* returns unsupported-feature to the caller (the call returns, the process
\* is not aborted) and leaves the command buffer and its command handles
\* unchanged.
C21_UnimplementedAppendsReturnUnsupported ==
    clLast.op \in ClUnimplementedAppends
        => /\ clLast.result = "UNSUPPORTED_FEATURE"
           /\ cl = clLast.before.cl /\ clCmd = clLast.before.clCmd

\* C22: urCommandBufferEnqueueExp leaves the command buffer as it found it, on
\* both adapters: the finalized flag, the native graph, the executable graph,
\* the sync points, the command list and the reference counts after the call
\* are those before it, so a finalized buffer can be enqueued again.
C22_EnqueueLeavesBufferUnchanged ==
    [][/\ Hip_urCommandBufferEnqueueExp => hip' = hip
       /\ Cl_urCommandBufferEnqueueExp => (cl' = cl /\ clCmd' = clCmd)]_vars

\* A finalized HIP buffer holding nodes has been launched.
C22_Witness ==
    /\ hipLast.op = "Enqueue"
    /\ hipLast.result = "SUCCESS"
    /\ hipLast.launched
    /\ hip.HIPGraphExec # NullExec
    /\ Len(hip.HIPGraph) > 0

\* The last call was urCommandBufferUpdateKernelLaunchExp.
ClUpdated == clLast.op = "UpdateKernelLaunch"

\* C23: urCommandBufferUpdateKernelLaunchExp on a command whose parent buffer
\* is not finalized or not updatable returns INVALID_OPERATION and hands no
\* configuration to clUpdateMutableCommandsKHR.
C23_UpdateNeedsFinalizedUpdatable ==
    (ClUpdated /\ (~clLast.before.cl.IsFinalized \/ ~clLast.before.cl.IsUpdatable))
        => (clLast.result = "INVALID_OPERATION" /\ clLast.named = <<>>)

\* An update was refused on an updatable buffer that is still recording, with
\* the extension entry point present.
C23_Witness ==
    /\ ClUpdated
    /\ clLast.before.cl.IsUpdatable
    /\ ~clLast.before.cl.IsFinalized
    /\ clLast.newWorkDim = clLast.before.clCmd[clLast.h].WorkDim
    /\ clLast.result = "INVALID_OPERATION"

\* C24: the work dimensionality recorded for a command never changes after
\* the append, and an update whose newWorkDim is not the recorded one returns
\* UNSUPPORTED_FEATURE without a native update call.
C24_WorkDimImmutableMismatchRejected ==
    /\ \A y \in DOMAIN clLast.before.clCmd :
           clLast.op # "Create" => clCmd[y].WorkDim = clLast.before.clCmd[y].WorkDim
    /\ (ClUpdated /\ clLast.newWorkDim # clLast.before.clCmd[clLast.h].WorkDim)
           => (clLast.result = "UNSUPPORTED_FEATURE" /\ clLast.named = <<>>)

\* C25: an update of command X leaves every other command of the buffer as it
\* was, and the native update names X's mutable command only.
C25_UpdateTouchesOnlyItsCommand ==
    ClUpdated =>
        /\ \A y \in DOMAIN clLast.before.clCmd :
               y # clLast.h => clCmd[y] = clLast.before.clCmd[y]
        /\ \A k \in DOMAIN clLast.named : clLast.named[k] = clLast.h

\* The last call was the release of the last reference to the HIP buffer.
HipFinalRelease == hipLast.op = "Release" /\ hipLast.refBefore = 1

\* C26: the release of the last reference succeeds whatever the buffer's
\* state (never finalized, finalized, enqueued), destroys the native graph
\* once, and the executable graph once if there is one. Stated for runs in
\* which the driver destroys every object that exists.
C26_DestroyFromAnyState ==
    (HipFinalRelease /\ ~hipLast.driverFault)
        => /\ hipLast.result = "SUCCESS"
           /\ hipLast.graphDestroys = 1
           /\ hipLast.execDestroys = IF hipLast.execBefore # NullExec THEN 1 ELSE 0

\* C29: under every interleaving of the retains and releases of several
\* threads, each releasing only references it owns, the buffer is deleted at
\* most once, by no step after its deletion is it touched, it is not deleted
\* while a thread owns or is acquiring a reference, and once every reference
\* is released and every call has returned it has been deleted.
C29_DestroyedOnceByLastRelease ==
    /\ thr.destroyed <= 1
    /\ ~thr.stale
    /\ (thr.destroyed = 1 \/ \E t \in Threads : thr.pc[t] = "delete")
           => \A t \in Threads : thr.owned[t] = 0 /\ thr.pc[t] # "retainExternal"
    /\ (/\ thr.adapter # "none"
        /\ \A t \in Threads : thr.owned[t] = 0 /\ thr.pc[t] = "idle")
           => thr.destroyed = 1

\* The OpenCL buffer was deleted by the release of a thread that did not
\* create it.
C29_Witness ==
    /\ thr.adapter = "cl"
    /\ thr.destroyed = 1
    /\ thr.deleter = 2

\* C30: a urCommandBufferCreateExp that fails leaves nothing acquired behind
\* (no internal queue, no native command buffer or graph, no host object) and
\* hands no object to the caller.
C30_FailedCreateLeaksNothing ==
    /\ (hipLast.op = "Create" /\ hipLast.result # "SUCCESS")
           => (~hipLast.handleOut /\ hip.phase = "none")
    /\ (clLast.op = "Create" /\ clLast.result # "SUCCESS")
           => (cl.Queues = 0 /\ cl.CLBuffers = 0 /\ ~cl.alive)

\* The host has made every call of the test.
EvFinished == ev.scenario # "none" /\ ev.pc > Len(EvProgram(ev.scenario))

EvReEnqueue == 5

HipNewNodes ==
    [i \in 1 .. (Len(hip.HIPGraph) - hipLast.nodesBefore) |->
         hip.HIPGraph[hipLast.nodesBefore + i]]

\* C31: a fill that succeeds adds exactly one memset node when patternSize is
\* 1, 2 or 4, and for a larger valid patternSize P exactly 1 + (P - 4) nodes:
\* one for the leading 4-byte chunk and one per remaining pattern byte.
C31_FillNodeCount ==
    (HipFilled /\ hipLast.result = "SUCCESS")
        => /\ Len(HipNewNodes) =
                  IF hipLast.args.patternSize \in {1, 2, 4} THEN 1
                  ELSE 1 + (hipLast.args.patternSize - 4)
           /\ \A i \in DOMAIN HipNewNodes : HipNewNodes[i].kind = "memset"
           /\ hipLast.args.patternSize > 4 =>
                  /\ HipNewNodes[1].elementSize = 4
                  /\ \A i \in 2 .. Len(HipNewNodes) : HipNewNodes[i].elementSize = 1

\* A fill with an 8-byte pattern succeeded and added five nodes.
C31_Witness ==
    /\ HipFilled /\ hipLast.result = "SUCCESS"
    /\ hipLast.args.patternSize = 8
    /\ Len(HipNewNodes) = 5

\* The fill helper got past its first native call with a pattern wider than
\* 4 bytes: the fill is decomposed.
HipDecomposedFill ==
    /\ HipFilled
    /\ hipLast.args.patternSize > 4
    /\ Len(HipNewNodes) > 0

\* The nodes the wait list of the last call resolved to, in the registry as
\* it was when the call was made.
HipResolvedWaitList ==
    getNodesFromSyncPoints(
        [hip EXCEPT !.SyncPoints = SubSeq(@, 1, hipLast.nextBefore)],
        hipLast.wl).HIPNodesList

\* C32 as stated: in a decomposed fill the first node's predecessors are the
\* resolved wait-list nodes, and the predecessor list of each subsequent node
\* includes all nodes previously emitted for this fill.
C32_EachNodeListsAllEarlierNodes ==
    HipDecomposedFill
        => /\ HipNewNodes[1].deps = HipResolvedWaitList
           /\ \A i \in 2 .. Len(HipNewNodes) : \A j \in 1 .. (i - 1) :
                  \E k \in DOMAIN HipNewNodes[i].deps :
                      HipNewNodes[i].deps[k] = hipLast.nodesBefore + j

\* C32 (amended): in a decomposed fill the first node's predecessors are the
\* resolved wait-list nodes, and the predecessor list of each subsequent node
\* holds exactly the node emitted immediately before it; along this chain
\* every node of the fill comes after all the nodes emitted before it and
\* after the wait list.
C32_NodesChainedInEmissionOrder ==
    HipDecomposedFill
        => /\ HipNewNodes[1].deps = HipResolvedWaitList
           /\ \A k \in DOMAIN HipNewNodes[1].deps :
                  HipNewNodes[1].deps[k] <= hipLast.nodesBefore
           /\ \A i \in 2 .. Len(HipNewNodes) :
                  HipNewNodes[i].deps = <<hipLast.nodesBefore + i - 1>>

\* An 8-byte fill that waits on the first sync point added its five nodes.
C32_Witness ==
    /\ HipDecomposedFill
    /\ hipLast.result = "SUCCESS"
    /\ hipLast.wl = <<0>>
    /\ HipNewNodes[1].deps = <<SyncPointNode(hip, 0)>>
    /\ Len(HipNewNodes) = 5
    /\ HipNewNodes[5].deps = <<hipLast.nodesBefore + 4>>

\* The steps of the last enqueue in the order of the code, and the results
\* the native calls were set to return.
HipEnqueueOrder ==
    IF hipLast.args.wantEvent
    THEN <<"wait", "start", "launch", "record">> ELSE <<"wait", "launch">>
HipEnqueueFailing ==
    {i \in DOMAIN HipEnqueueOrder : hipLast.args[HipEnqueueOrder[i]] # "SUCCESS"}

\* C33: enqueue on the HIP adapter makes the stream wait on the wait events,
\* then starts the output event if one is requested, then launches the
\* executable graph, then records the event. The first step that fails ends
\* the call with its error, no later step runs, and the caller's event slot
\* is written only when every step succeeded.
C33_EnqueueStepsInOrder ==
    hipLast.op = "Enqueue"
        => IF HipEnqueueFailing = {}
           THEN /\ hipLast.result = "SUCCESS"
                /\ hipLast.steps = HipEnqueueOrder
                /\ hipLast.eventOut = hipLast.args.wantEvent
                /\ hipLast.launched
           ELSE LET f == CHOOSE i \in HipEnqueueFailing :
                             \A j \in HipEnqueueFailing : i <= j
                IN  /\ hipLast.result = hipLast.args[HipEnqueueOrder[f]]
                    /\ hipLast.steps = SubSeq(HipEnqueueOrder, 1, f)
                    /\ ~hipLast.eventOut
                    /\ hipLast.launched =
                           (\E j \in 1 .. (f - 1) : HipEnqueueOrder[j] = "launch")

\* An enqueue with an output event launched the graph and failed to record
\* the event: the slot was not written.
C33_Witness ==
    /\ hipLast.op = "Enqueue"
    /\ hipLast.args.wantEvent
    /\ hipLast.args.record # "SUCCESS"
    /\ hipLast.steps = <<"wait", "start", "launch", "record">>
    /\ hipLast.launched
    /\ ~hipLast.eventOut
    /\ hipLast.result = hipLast.args.record

\* The update was turned down by one of the checks that precede the staging
\* of the new configuration.
ClUpdateRejected ==
    clLast.result \in {"INVALID_OPERATION", "INVALID_ENUMERATION", "UNSUPPORTED_FEATURE"}

C38_StagingWritesStayInBounds ==
    ClUpdated => clLast.overflow = "absent"

\* C39: urCommandBufferAppendMemBufferFillExp accepts a fill only when both
\* the offset and the size are multiples of patternSize; when either is not,
\* it returns invalid-size and adds no node.
C39_UnalignedBufferFillRejected ==
    (/\ hipLast.op = "AppendMemBufferFill"
     /\ hipLast.args.patternSize > 0
     /\ \/ hipLast.args.offset % hipLast.args.patternSize # 0
        \/ hipLast.args.size % hipLast.args.patternSize # 0)
        => /\ hipLast.result = "INVALID_SIZE"
           /\ HipBufferUnchanged

\* The bytes of the destination a memset node writes: height rows, pitch
\* bytes apart, of one element (width = 1) of elementSize bytes each.
HipNodeBytes(node) ==
    {node.dstOffset + r * node.pitch + e :
         r \in 0 .. (node.height - 1), e \in 0 .. (node.elementSize - 1)}

C37_InternalCountCoversExternal ==
    (thr.adapter = "cl" /\ thr.destroyed = 0)
        => /\ thr.RefCountInternal >= thr.RefCountExternal
           /\ thr.RefCountExternal >= 0
           /\ thr.RefCountInternal >= 0

\* One thread is between the two increments of a retain while another is
\* between the two decrements of a release.
C37_Witness ==
    /\ thr.adapter = "cl" /\ thr.destroyed = 0
    /\ \E t \in Threads, u \in Threads :
           /\ thr.pc[t] = "retainExternal"
           /\ thr.pc[u] = "releaseInternal"
    /\ thr.RefCountInternal = thr.RefCountExternal + 2

\* C35: while a ScopedContext for device D is alive the thread's active
\* native context is D's; once it is destroyed the active context is the one
\* that was active at entry if there was one, and D's if none was. A null
\* device makes the construction fail with invalid-device and leaves the
\* active context as it was.
C35_ScopedContextActivatesAndRestores ==
    /\ ctx.guard.alive => ctx.active = ctx.guard.device
    /\ (ctx.op = "~ScopedContext" /\ ctx.result = "SUCCESS")
           => ctx.active = IF ctx.entry # NullCtx THEN ctx.entry ELSE ctx.device
    /\ (ctx.op = "ScopedContext" /\ ctx.device = NullCtx)
           => /\ ctx.result = "INVALID_DEVICE"
              /\ ctx.active = ctx.before
              /\ ~ctx.guard.alive

\* A guard for one device was constructed while the other device's context
\* was active, and has been destroyed: that context is active again.
C35_Witness ==
    /\ ctx.op = "~ScopedContext" /\ ctx.result = "SUCCESS"
    /\ ctx.entry \in Devices /\ ctx.device \in Devices
    /\ ctx.entry # ctx.device
    /\ ctx.before = ctx.device
    /\ ctx.active = ctx.entry

\* The threads inside setExtendedDeleter or invokeExtendedDeleters.
CtxInside == {t \in Threads : ctx.pc[t] \notin {"idle", "done"}}

\* C36: setExtendedDeleter and invokeExtendedDeleters exclude each other on a
\* context whatever the interleaving: the registrations of N threads leave N
\* deleters in the list, and invokeExtendedDeleters calls each deleter that
\* was registered before it took the lock exactly once, in registration
\* order, while the list stays as it found it.
C36_DeletersUnderMutex ==
    ctx.part = "deleters"
        => /\ Cardinality(CtxInside) <= 1
           /\ ctx.ExtendedDeleters = ctx.registered
           /\ CtxInside = {} =>
                  Len(ctx.ExtendedDeleters) =
                      Cardinality({t \in Threads :
                                      ctx.pc[t] = "done" /\ t # ctx.invoker})
           /\ \A t \in Threads :
                  /\ ctx.pc[t] = "for" =>
                         /\ ctx.ExtendedDeleters = ctx.seen
                         /\ ctx.invoked = SubSeq(ctx.seen, 1, ctx.it[t] - 1)
                  /\ (t = ctx.invoker /\ ctx.pc[t] \in {"unlock", "done"}) =>
                         ctx.invoked = ctx.seen

\* Two threads registered their deleters, a third invoked them and returned.
C36_Witness ==
    /\ ctx.part = "deleters"
    /\ ctx.invoker # 0
    /\ ctx.pc[ctx.invoker] = "done"
    /\ Len(ctx.invoked) = 2
    /\ ctx.invoked = ctx.registered

====
